---- MODULE Spec2Model ----
(***************************************************************************)
(* Trade replication pipeline of Cawpy: lease manager, guarded executor,   *)
(* outcome writeback (postOrder) and reconciliation marking, for one       *)
(* trade record of one leader collection that is processed by several      *)
(* executor tasks.                                                         *)
(*                                                                         *)
(* Reasons keep the fixed words of the code's messages; the figures the    *)
(* code interpolates into them are left out.                               *)
(* Units: amounts (USD and tokens) are integers in hundredths, prices are  *)
(* integers in hundredths of a dollar.  Date.now() is kept in seconds      *)
(* (the millisecond values divided by 1000); the feed's trade timestamps   *)
(* are seconds, which checkTimestampGate converts to milliseconds.         *)
(* The document store is assumed to answer every request, except in        *)
(* SpecFaults, where the reservation's request may be rejected; every      *)
(* store request is one atomic step, and tasks interleave between          *)
(* requests.                                                               *)
(***************************************************************************)
EXTENDS Integers, Sequences, FiniteSets, TLC

\* ------------------------------------------------------------------ bounds
\* clock ticks, processing attempts, and order ids the exchange hands out
MaxTime == 1
MaxCalls == 2
MaxOrders == 2
\* further records in the leader's collection
MaxTrades == 2
\* the clock starts at Epoch0 and advances in steps of TickSec seconds
\* (one step outlasts a lease)
Epoch0 == 100000
TickSec == 31

\* ------------------------------------------------------- program constants
\* DEFAULT_LEASE_TIMEOUT_MS = 30000 ms, in seconds
DEFAULT_LEASE_TIMEOUT_MS == 30
\* ENV.RETRY_LIMIT: a deployment setting, no default in the code; 2 lets the
\* retry count both stay under the limit and reach it
RETRY_LIMIT == 2
\* ENV.MAX_SLIPPAGE_BPS: a deployment setting, no default in the code
MAX_SLIPPAGE_BPS == 500
HARD_CAP_MAX_SLIPPAGE_BPS == 1000
\* 1.0 USD / 1.0 token, in hundredths
MIN_ORDER_SIZE_USD == 100
MIN_ORDER_SIZE_TOKENS == 100
\* ENV.TOO_OLD_TIMESTAMP_HOURS (default 24)
TOO_OLD_TIMESTAMP_HOURS == 24
\* viability hard caps and defaults (prices in hundredths, USD in hundredths)
HARD_CAP_PRICE_LIMIT == 95
HARD_CAP_MIN_TIME_MINUTES == 5
HARD_CAP_MAX_SPREAD_BPS == 2000
HARD_CAP_MIN_DEPTH_USD == 50
ENV_VIABILITY_PRICE_LIMIT == 95
ENV_VIABILITY_MIN_TIME == 60
ENV_VIABILITY_MAX_SPREAD_BPS == 500
ENV_VIABILITY_MIN_DEPTH_USD == 1000
\* edge filter hard floors and defaults
HARD_CAP_MIN_POSITION_DELTA_USD == 50
HARD_CAP_MIN_TRADE_PERCENT == 1
ENV_EDGE_MIN_POSITION_DELTA_USD == 500
ENV_EDGE_MIN_TRADE_PERCENT == 5

\* ---------------------------------------------------------------- helpers
Min(a, b) == IF a < b THEN a ELSE b
Max(a, b) == IF a > b THEN a ELSE b

\* absent values: strings use "null", numbers use -1, keys use << >>
NullStr == "null"
NoNum == -1
NoKey == << >>

Tasks == {"t1", "t2"}
WorkerIds == {"w1", "w2"}

LifecycleStates ==
    {"detected", "claimed", "executing", "executed", "skipped", "failed", "reconciled"}

\* now       Date.now(), in seconds
\* rec       the stored trade record
\* task      each executor task's position and locals
\* workerOf  the worker id of the process a task runs in
\* ncalls    processing attempts started so far
\* nextOid   the last order id the exchange handed out
\* orders    every createMarketOrder/postOrder submission made: the attempt
\*           that made it, whether the exchange accepted it, its orderID,
\*           and the side, price and request.traderPrice it was made with
\* entered   the attempts that entered executeOrderLoop
\* trades    the other records of the leader's collection, as the
\*           reconciliation queries read them
\* held      the follower's positions at the exchange, per asset (0: none)
\* recon     the position of a runReconciliation call and what it computed
\* proc      each process: "running", "stopping" after a shutdown signal,
\*           "exited" after process.exit(0), "forced" after process.exit(1)
\* env       ENV, the settings of the deployment as the modules read them
\*           when they load; NoNum for a setting that is undefined
\* edge      a call of checkEdgeFilters made on its own: its arguments and,
\*           once it has returned, its result
VARIABLES now, rec, task, workerOf, ncalls, nextOid, orders, entered,
          trades, held, recon, proc, env, edge

reconVars == <<trades, held, recon>>

vars == <<now, rec, task, workerOf, ncalls, nextOid, orders, entered, reconVars, proc, env, edge>>

\* ------------------------------------------------------- the stored record
\* activitySchema: the fields of a trade record that the pipeline reads or
\* writes.  asset/side/price/usdcSize/timestamp are set by the detector and
\* never written afterwards.  The write-only fields executedAt, lastRetryAt,
\* expectedTokens and avgFillPrice are not kept.
NewRecord(ts, price, usdcSize) ==
    [ lifecycleState |-> "detected",
      timestamp |-> ts,
      price |-> price,
      usdcSize |-> usdcSize,
      asset |-> "a1",
      bot |-> FALSE,
      botExcutedTime |-> 0,
      retryCount |-> 0,
      skipReason |-> NullStr,
      failureReason |-> NullStr,
      claimedBy |-> NullStr,
      leaseExpiresAt |-> NoNum,
      claimedAt |-> NoNum,
      idempotencyKey |-> NoKey,
      clobOrderId |-> NoNum,
      actualTokens |-> NoNum,
      myBoughtSize |-> NoNum,
      filledSize |-> NoNum,
      intendedSize |-> NoNum,
      needsManualReview |-> FALSE ]

\* getWorkerId: one id per process, shared by every task of the process
getWorkerId(t) == workerOf[t]

\* ------------------------------------------------------------ lease manager
\* acquireLease, the atomic findOneAndUpdate: claim only if claimedBy is
\* null/absent or the stored lease is older than the caller's clock reading
\* variant: the update's filter does not look at the lease
AcquireFilter_AnyRecord(r, t0) == TRUE

AcquireFilter(r, t0) ==
    \/ r.claimedBy = NullStr
    \/ (r.leaseExpiresAt # NoNum /\ r.leaseExpiresAt < t0)

\* variant: a successful claim leaves the lifecycle state as it was
AcquireUpdate_StateKept(r, w, t0, leaseTimeoutMs) ==
    IF AcquireFilter(r, t0)
    THEN [ ok |-> TRUE,
           rec |-> [r EXCEPT !.claimedBy = w,
                             !.leaseExpiresAt = t0 + leaseTimeoutMs,
                             !.claimedAt = t0] ]
    ELSE [ ok |-> FALSE, rec |-> r ]

AcquireUpdate(r, w, t0, leaseTimeoutMs) ==
    IF AcquireFilter(r, t0)
    THEN [ ok |-> TRUE,
           rec |-> [r EXCEPT !.claimedBy = w,
                             !.leaseExpiresAt = t0 + leaseTimeoutMs,
                             !.claimedAt = t0,
                             !.lifecycleState = "claimed"] ]
    ELSE [ ok |-> FALSE, rec |-> r ]

\* variant: the holder is not recognised
AcquireOwnCheck_Never(r, w) == FALSE

\* acquireLease, the findById after a failed update: "Already own lease"
AcquireOwnCheck(r, w) == r.claimedBy = w

\* variant: the update is not filtered on the holder
ReleaseUpdate_AnyHolder(r, w) ==
    [r EXCEPT !.claimedBy = NullStr, !.leaseExpiresAt = NoNum]

\* releaseLease: updateOne filtered on claimedBy = this worker
ReleaseUpdate(r, w) ==
    IF r.claimedBy = w
    THEN [r EXCEPT !.claimedBy = NullStr, !.leaseExpiresAt = NoNum]
    ELSE r

\* variant: the filter does not test the lifecycle state
ClearExpiredFilter_AnyState(r, t0) ==
    /\ r.claimedBy # NullStr
    /\ r.leaseExpiresAt # NoNum /\ r.leaseExpiresAt < t0

\* clearExpiredLeases: updateMany on claimed records with a stale lease
ClearExpiredFilter(r, t0) ==
    /\ r.claimedBy # NullStr
    /\ r.leaseExpiresAt # NoNum /\ r.leaseExpiresAt < t0
    /\ r.lifecycleState = "claimed"

ClearExpiredUpdate(r, t0) ==
    IF ClearExpiredFilter(r, t0)
    THEN [r EXCEPT !.claimedBy = NullStr,
                   !.leaseExpiresAt = NoNum,
                   !.lifecycleState = "detected"]
    ELSE r

\* findStuckTrades: executing records whose lease is stale
IsStuck(r, t0) ==
    /\ r.lifecycleState = "executing"
    /\ r.leaseExpiresAt # NoNum /\ r.leaseExpiresAt < t0

\* markTradesReconciled: updateMany on executed records of the given assets
MarkReconciledUpdate(r, assets) ==
    IF r.asset \in assets /\ r.lifecycleState = "executed"
    THEN [r EXCEPT !.lifecycleState = "reconciled"]
    ELSE r

\* ---------------------------------------------------------- reconciliation
Assets == {"a1", "a2"}
TradeIds == 1..MaxTrades

\* a record of the collection as the reconciliation queries read it; size
\* is the leader's trade size in tokens
TradeRecord(asset, side, state, bot, tokens, size) ==
    [ asset |-> asset, side |-> side, lifecycleState |-> state, bot |-> bot,
      actualTokens |-> tokens, myBoughtSize |-> tokens, size |-> size ]

\* `a || b`: a value counts when it is present and not 0
Truthy(x) == x # NoNum /\ x # 0

\* calculateExpectedPositions: the filter of executedBuys
BuyQuery(r) ==
    \/ (r.lifecycleState = "executed" /\ r.side = "BUY")
    \/ (r.bot /\ r.side = "BUY" /\ r.myBoughtSize # NoNum /\ r.myBoughtSize > 0)

\* calculateExpectedPositions: the filter of executedSells
SellQuery(r) ==
    \/ (r.lifecycleState = "executed" /\ r.side = "SELL")
    \/ (r.bot /\ r.side = "SELL")

\* buy.actualTokens || buy.myBoughtSize || 0
BuyTokens(r) ==
    IF Truthy(r.actualTokens) THEN r.actualTokens
    ELSE IF Truthy(r.myBoughtSize) THEN r.myBoughtSize ELSE 0

\* sell.actualTokens || sell.myBoughtSize || sell.size || 0
SellTokens(r) ==
    IF Truthy(r.actualTokens) THEN r.actualTokens
    ELSE IF Truthy(r.myBoughtSize) THEN r.myBoughtSize
    ELSE IF Truthy(r.size) THEN r.size ELSE 0

\* the tokens of asset a added by the first n records' BUYs
RECURSIVE BoughtTokens(_, _, _)
BoughtTokens(trs, n, a) ==
    IF n = 0 THEN 0
    ELSE BoughtTokens(trs, n - 1, a)
           + (IF BuyQuery(trs[n]) /\ trs[n].asset = a THEN BuyTokens(trs[n]) ELSE 0)

\* the tokens of asset a subtracted by the first n records' SELLs
RECURSIVE SoldTokens(_, _, _)
SoldTokens(trs, n, a) ==
    IF n = 0 THEN 0
    ELSE SoldTokens(trs, n - 1, a)
           + (IF SellQuery(trs[n]) /\ trs[n].asset = a THEN SellTokens(trs[n]) ELSE 0)

\* calculateExpectedPositions: the map's entry for asset a, NoNum when the
\* map has none.  An entry exists once a BUY of the asset was read; a SELL
\* subtracts from an existing entry and deletes it when the size falls
\* under 0.001 tokens, after which further SELLs find no entry.
ExpectedSize(trs, a) ==
    LET n == Len(trs)
        hasBuy == \E i \in 1..n : BuyQuery(trs[i]) /\ trs[i].asset = a
        hasSell == \E i \in 1..n : SellQuery(trs[i]) /\ trs[i].asset = a
        left == BoughtTokens(trs, n, a) - SoldTokens(trs, n, a)
    IN IF ~hasBuy THEN NoNum
       ELSE IF hasSell /\ left <= 0 THEN NoNum
       ELSE left

calculateExpectedPositions(trs) == [a \in Assets |-> ExpectedSize(trs, a)]

\* getActualPositions: the positions endpoint's answer, kept where
\* `pos.asset && pos.size > 0`; an answer that is not an array, and a fetch
\* that throws (caught and logged), leave the map empty
getActualPositions(positions, outcome) ==
    [a \in Assets |->
        IF outcome = "ok" /\ positions[a] > 0 THEN positions[a] ELSE NoNum]

Abs(x) == IF x < 0 THEN -x ELSE x

\* runReconciliation: Math.abs(difference) <= Math.max(expected * 0.01, 0.1),
\* in hundredths of a token
WithinTolerance(expectedSize, actualSize) ==
    Abs(actualSize - expectedSize) * 100 <= Max(expectedSize, 1000)

\* runReconciliation: severity by |differencePercent|, which is 0 when the
\* expected size is not positive
Severity(expectedSize, actualSize) ==
    LET difference == actualSize - expectedSize
    IN IF expectedSize > 0 /\ Abs(difference) * 100 > 20 * expectedSize THEN "critical"
       ELSE IF expectedSize > 0 /\ Abs(difference) * 100 > 5 * expectedSize THEN "warning"
       ELSE "info"

\* runReconciliation: the discrepancies pushed by its two loops
Discrepancies(expected, actual) ==
    { [ asset |-> a, expectedSize |-> expected[a],
        actualSize |-> IF actual[a] = NoNum THEN 0 ELSE actual[a],
        severity |-> Severity(expected[a], IF actual[a] = NoNum THEN 0 ELSE actual[a]) ]
      : a \in { x \in Assets :
                  /\ expected[x] # NoNum
                  /\ ~WithinTolerance(expected[x],
                                      IF actual[x] = NoNum THEN 0 ELSE actual[x]) } }
    \cup
    { [ asset |-> a, expectedSize |-> 0, actualSize |-> actual[a],
        severity |-> "warning" ]
      : a \in { x \in Assets : actual[x] # NoNum /\ expected[x] = NoNum } }

NoPositions == [a \in Assets |-> NoNum]

\* ReconciliationResult: the discrepancies and summary.matchingPositions,
\* with the two maps they were computed from
ReconciliationResult(expected, actual) ==
    [ expected |-> expected, actual |-> actual,
      discrepancies |-> Discrepancies(expected, actual),
      matchingPositions |->
          Cardinality({ a \in Assets :
              /\ expected[a] # NoNum
              /\ WithinTolerance(expected[a],
                                 IF actual[a] = NoNum THEN 0 ELSE actual[a]) }) ]

NoReconciliation ==
    [ expected |-> NoPositions, actual |-> NoPositions,
      discrepancies |-> {}, matchingPositions |-> 0 ]

\* no runReconciliation call under way
IdleRecon == [pc |-> "idle", result |-> NoReconciliation]

\* ------------------------------------------------------------- idempotency
\* generateIdempotencyKey: `${tradeId}-${side}-${tokenId}-${Date.now()}`;
\* tradeId and tokenId are those of the one record, so side and time remain
generateIdempotencyKey(side, t0) == <<side, t0>>

\* checkIdempotency, the direct DB check: the three "skip: true" branches
\* variant: only an executed record is skipped
IdempotencySkip_ExecutedOnly(r) ==
    r.idempotencyKey # NoKey /\ r.lifecycleState = "executed"

IdempotencySkip(r) ==
    \/ (r.idempotencyKey # NoKey /\ r.lifecycleState = "executed")
    \/ r.idempotencyKey # NoKey
    \/ r.clobOrderId # NoNum

\* variant: the reservation's filter does not test the stored key
ReserveFilter_AnyRecord(r) == TRUE

\* reserveIdempotencyKey, the atomic findOneAndUpdate
ReserveFilter(r) == r.idempotencyKey = NoKey

\* variant: the reservation marks the record executing without storing the key
ReserveUpdate_KeyNotStored(r, key) ==
    IF ReserveFilter(r)
    THEN [ reserved |-> TRUE, rec |-> [r EXCEPT !.lifecycleState = "executing"] ]
    ELSE [ reserved |-> FALSE, rec |-> r ]

ReserveUpdate(r, key) ==
    IF ReserveFilter(r)
    THEN [ reserved |-> TRUE,
           rec |-> [r EXCEPT !.idempotencyKey = key,
                             !.lifecycleState = "executing"] ]
    ELSE [ reserved |-> FALSE, rec |-> r ]

\* ------------------------------------------------------------------- gates
\* GateCheckResult
Pass == [passed |-> TRUE, reason |-> "none"]
Block(reason) == [passed |-> FALSE, reason |-> reason]

\* variant: a trade exactly as old as the limit is not fresh
checkTimestampGate_StrictAge(req, t0) ==
    IF req.tradeTimestamp = NoNum THEN Block("missing_trade_timestamp")
    ELSE IF t0 - req.tradeTimestamp < TOO_OLD_TIMESTAMP_HOURS * 60 * 60
         THEN Pass ELSE Block("trade_timestamp_too_old")

\* Gate 0, checkTimestampGate (tradeId is always present for a record):
\* a seconds timestamp t is converted to t * 1000 ms and compared with
\* Date.now() ms; both sides are kept divided by 1000 here
checkTimestampGate(req, t0) ==
    IF req.tradeTimestamp = NoNum THEN Block("missing_trade_timestamp")
    ELSE LET maxAge == TOO_OLD_TIMESTAMP_HOURS * 60 * 60
             isFresh == t0 - req.tradeTimestamp <= maxAge
         IN IF isFresh THEN Pass ELSE Block("trade_timestamp_too_old")

\* the settings of the deployment modelled in the main specifications:
\* MAX_SLIPPAGE_BPS is set, the viability and edge settings are left
\* undefined, so that the defaults after `??` apply
DefaultEnv ==
    [ VIABILITY_PRICE_LIMIT |-> NoNum,
      VIABILITY_MIN_TIME_BEFORE_END_MINUTES |-> NoNum,
      VIABILITY_MAX_SPREAD_BPS |-> NoNum,
      VIABILITY_MIN_DEPTH_USD |-> NoNum,
      EDGE_MIN_POSITION_DELTA_USD |-> NoNum,
      EDGE_MIN_TRADE_PERCENT_OF_POSITION |-> NoNum,
      MAX_SLIPPAGE_BPS |-> MAX_SLIPPAGE_BPS ]

\* variant: the configured values are used as they are
getViabilityConfig_NoCap ==
    [ priceLimit |-> IF env.VIABILITY_PRICE_LIMIT = NoNum
                     THEN ENV_VIABILITY_PRICE_LIMIT ELSE env.VIABILITY_PRICE_LIMIT,
      minTimeBeforeEndMinutes |->
          IF env.VIABILITY_MIN_TIME_BEFORE_END_MINUTES = NoNum
          THEN ENV_VIABILITY_MIN_TIME ELSE env.VIABILITY_MIN_TIME_BEFORE_END_MINUTES,
      maxSpreadBps |-> IF env.VIABILITY_MAX_SPREAD_BPS = NoNum
                       THEN ENV_VIABILITY_MAX_SPREAD_BPS ELSE env.VIABILITY_MAX_SPREAD_BPS,
      minDepthUsd |-> IF env.VIABILITY_MIN_DEPTH_USD = NoNum
                      THEN ENV_VIABILITY_MIN_DEPTH_USD ELSE env.VIABILITY_MIN_DEPTH_USD ]

\* getViabilityConfig: `ENV.X ?? default`, then Math.min / Math.max with
\* the hard cap
getViabilityConfig ==
    LET envPriceLimit == IF env.VIABILITY_PRICE_LIMIT = NoNum
                         THEN ENV_VIABILITY_PRICE_LIMIT ELSE env.VIABILITY_PRICE_LIMIT
        envMinTime == IF env.VIABILITY_MIN_TIME_BEFORE_END_MINUTES = NoNum
                      THEN ENV_VIABILITY_MIN_TIME
                      ELSE env.VIABILITY_MIN_TIME_BEFORE_END_MINUTES
        envMaxSpread == IF env.VIABILITY_MAX_SPREAD_BPS = NoNum
                        THEN ENV_VIABILITY_MAX_SPREAD_BPS
                        ELSE env.VIABILITY_MAX_SPREAD_BPS
        envMinDepth == IF env.VIABILITY_MIN_DEPTH_USD = NoNum
                       THEN ENV_VIABILITY_MIN_DEPTH_USD ELSE env.VIABILITY_MIN_DEPTH_USD
    IN
    [ priceLimit |-> Min(envPriceLimit, HARD_CAP_PRICE_LIMIT),
      minTimeBeforeEndMinutes |-> Max(envMinTime, HARD_CAP_MIN_TIME_MINUTES),
      maxSpreadBps |-> Min(envMaxSpread, HARD_CAP_MAX_SPREAD_BPS),
      minDepthUsd |-> Max(envMinDepth, HARD_CAP_MIN_DEPTH_USD) ]

\* an order book is [bids, asks], each a sequence of levels [price, size];
\* throws = TRUE stands for a getOrderBook call that rejects
RECURSIVE DepthTimes100(_)
DepthTimes100(levels) ==
    IF levels = << >> THEN 0
    ELSE Head(levels).size * Head(levels).price + DepthTimes100(Tail(levels))

ViabilityResult(viable, reason, price, time, spread, depth) ==
    [ viable |-> viable, reason |-> reason,
      checks |-> [priceExtreme |-> price, timeToEnd |-> time,
                  spread |-> spread, depth |-> depth] ]

\* checkMarketViability; endMinutes = NoNum when endDate is absent,
\* otherwise the minutes remaining until the market ends
checkMarketViability(book, hasEnd, endMinutes, isSellReducingExposure) ==
    LET config == getViabilityConfig IN
    IF book.throws
    THEN ViabilityResult(FALSE, "Failed to check viability", TRUE, TRUE, TRUE, TRUE)
    ELSE
    LET hasBid == Len(book.bids) > 0
        hasAsk == Len(book.asks) > 0
        bestBidPrice == IF hasBid THEN book.bids[1].price ELSE 0
        bestAskPrice == IF hasAsk THEN book.asks[1].price ELSE 100
        relevantDepth100 == Min(DepthTimes100(book.bids), DepthTimes100(book.asks))
    IN
    IF bestBidPrice >= config.priceLimit
    THEN ViabilityResult(FALSE, "Market appears resolved: bid", FALSE, TRUE, TRUE, TRUE)
    ELSE IF bestAskPrice <= 100 - config.priceLimit
    THEN ViabilityResult(FALSE, "Market appears resolved: ask", FALSE, TRUE, TRUE, TRUE)
    ELSE IF hasEnd /\ endMinutes < config.minTimeBeforeEndMinutes
                  /\ ~isSellReducingExposure
    THEN ViabilityResult(FALSE, "Too close to market end", TRUE, FALSE, TRUE, TRUE)
    ELSE IF hasBid /\ hasAsk
            \* spreadBps = (ask - bid) / bid * 10000 > maxSpreadBps
            /\ (bestAskPrice - bestBidPrice) * 10000 > config.maxSpreadBps * bestBidPrice
    THEN ViabilityResult(FALSE, "Spread too wide", TRUE, TRUE, FALSE, TRUE)
    ELSE IF relevantDepth100 < config.minDepthUsd * 100
    THEN ViabilityResult(FALSE, "Insufficient liquidity", TRUE, TRUE, TRUE, FALSE)
    ELSE ViabilityResult(TRUE, "All checks passed", TRUE, TRUE, TRUE, TRUE)

\* Gate 1, checkViabilityGate
checkViabilityGate(req, book) ==
    LET isBuy == req.side = "BUY"
        isExit == req.side = "SELL" \/ req.side = "MERGE"
        viability == checkMarketViability(book, req.hasEndDate, req.endMinutes, isExit)
    IN
    IF isBuy /\ ~req.hasEndDate THEN Block("missing_market_end_date")
    ELSE IF ~viability.viable
    THEN IF isBuy THEN Block(viability.reason)
         ELSE IF ~viability.checks.spread \/ ~viability.checks.depth
              THEN Block(viability.reason)
              ELSE Pass
    ELSE Pass

\* getEdgeConfig, evaluated once for DEFAULT_CONFIG
getEdgeConfig ==
    LET envMinDelta == IF env.EDGE_MIN_POSITION_DELTA_USD = NoNum
                       THEN ENV_EDGE_MIN_POSITION_DELTA_USD
                       ELSE env.EDGE_MIN_POSITION_DELTA_USD
        envMinPercent == IF env.EDGE_MIN_TRADE_PERCENT_OF_POSITION = NoNum
                         THEN ENV_EDGE_MIN_TRADE_PERCENT
                         ELSE env.EDGE_MIN_TRADE_PERCENT_OF_POSITION
    IN
    [ minPositionDeltaUsd |-> Max(envMinDelta, HARD_CAP_MIN_POSITION_DELTA_USD),
      requirePositionForSell |-> TRUE,
      minTradePercentOfPosition |-> Max(envMinPercent, HARD_CAP_MIN_TRADE_PERCENT) ]

\* variant: the percentage filter is applied to BUYs as well
checkEdgeFilters_PercentForAllSides(usdcSize, size, side, myPositionSize, traderPositionSize, config) ==
    LET tradeValueUsd == IF usdcSize = NoNum THEN 0 ELSE usdcSize
        isSell == side = "SELL"
        tradeSize == IF size = NoNum THEN 0 ELSE size
        positionBefore == IF isSell THEN traderPositionSize + tradeSize
                                    ELSE traderPositionSize - tradeSize
    IN
    IF tradeValueUsd < config.minPositionDeltaUsd
    THEN [shouldCopy |-> FALSE, reason |-> "below minimum"]
    ELSE IF isSell /\ config.requirePositionForSell
            /\ (myPositionSize = NoNum \/ myPositionSize <= 0)
    THEN [shouldCopy |-> FALSE, reason |-> "no position held"]
    ELSE IF traderPositionSize # NoNum /\ traderPositionSize > 0
            /\ positionBefore > 0
            \* tradePercent = tradeSize / positionBefore * 100 < minimum
            /\ tradeSize * 100 < config.minTradePercentOfPosition * positionBefore
    THEN [shouldCopy |-> FALSE, reason |-> "small rebalance"]
    ELSE [shouldCopy |-> TRUE, reason |-> "All edge filters passed"]

\* checkEdgeFilters; myPositionSize / traderPositionSize = NoNum when the
\* position argument is undefined; the result is shouldCopy and the reason
checkEdgeFilters(usdcSize, size, side, myPositionSize, traderPositionSize, config) ==
    LET tradeValueUsd == IF usdcSize = NoNum THEN 0 ELSE usdcSize
        isSell == side = "SELL"
        tradeSize == IF size = NoNum THEN 0 ELSE size
        positionBefore == IF isSell THEN traderPositionSize + tradeSize
                                    ELSE traderPositionSize - tradeSize
    IN
    IF tradeValueUsd < config.minPositionDeltaUsd
    THEN [shouldCopy |-> FALSE, reason |-> "below minimum"]
    ELSE IF isSell /\ config.requirePositionForSell
            /\ (myPositionSize = NoNum \/ myPositionSize <= 0)
    THEN [shouldCopy |-> FALSE, reason |-> "no position held"]
    ELSE IF traderPositionSize # NoNum /\ traderPositionSize > 0
            /\ isSell /\ positionBefore > 0
            \* tradePercent = tradeSize / positionBefore * 100 < minimum
            /\ tradeSize * 100 < config.minTradePercentOfPosition * positionBefore
    THEN [shouldCopy |-> FALSE, reason |-> "small rebalance"]
    ELSE [shouldCopy |-> TRUE, reason |-> "All edge filters passed"]

\* Gate 2, checkEdgeGate as called by executeOrderGuarded: myPosition is
\* undefined when myPositionSize is 0 or absent, traderPosition is undefined
checkEdgeGate(req) ==
    LET tradeUsdSize ==
            IF req.tradeUsdcSize # NoNum THEN req.tradeUsdcSize
            ELSE IF req.side = "BUY" THEN req.amount
            ELSE IF req.traderPrice # NoNum /\ req.traderPrice # 0
                 THEN (req.amount * req.traderPrice) \div 100
                 ELSE NoNum
        myPos == IF req.myPositionSize = NoNum \/ req.myPositionSize = 0
                 THEN NoNum ELSE req.myPositionSize
        result == checkEdgeFilters(tradeUsdSize, req.amount, req.side,
                                   myPos, NoNum, getEdgeConfig)
    IN
    IF tradeUsdSize = NoNum THEN Block("edge_filter_missing_trade_usdc")
    ELSE IF ~result.shouldCopy THEN Block("edge_filter: " \o result.reason)
    ELSE Pass

\* Gate 3, checkPositionRequiredForSell
checkPositionRequiredForSell(req) ==
    IF (req.side = "SELL" \/ req.side = "MERGE")
       /\ (req.myPositionSize = NoNum \/ req.myPositionSize = 0
             \/ req.myPositionSize <= 0)
    THEN Block("no_position_to_sell")
    ELSE Pass

\* Gate 4, checkOrderSizing
checkOrderSizing(req) ==
    IF req.side = "BUY"
    THEN IF req.amount < MIN_ORDER_SIZE_USD
         THEN Block("order_size_below_minimum_usd") ELSE Pass
    ELSE IF req.amount < MIN_ORDER_SIZE_TOKENS
         THEN Block("order_size_below_minimum_tokens") ELSE Pass

EFFECTIVE_MAX_SLIPPAGE_BPS == Min(env.MAX_SLIPPAGE_BPS, HARD_CAP_MAX_SLIPPAGE_BPS)

\* variant: the difference is taken as for a BUY whatever the side
checkSlippageGate_SellAsBuy(side, currentPrice, traderPrice) ==
    IF traderPrice = NoNum \/ traderPrice <= 0 THEN Pass
    ELSE IF (currentPrice - traderPrice) * 10000
                > EFFECTIVE_MAX_SLIPPAGE_BPS * traderPrice
         THEN Block("slippage_exceeds_max") ELSE Pass

\* Gate 5, checkSlippageGate: slippageBps = diff / traderPrice * 10000
checkSlippageGate(side, currentPrice, traderPrice) ==
    IF traderPrice = NoNum \/ traderPrice <= 0 THEN Pass
    ELSE LET diff == IF side = "BUY" THEN currentPrice - traderPrice
                                      ELSE traderPrice - currentPrice
         IN IF diff * 10000 > EFFECTIVE_MAX_SLIPPAGE_BPS * traderPrice
            THEN Block("slippage_exceeds_max") ELSE Pass

\* the verdicts of Gates 1-4 on a request, and the reason of the first
\* failure among them ("none" when all pass)
GateVerdicts(req, book) ==
    << checkViabilityGate(req, book), checkEdgeGate(req),
       checkPositionRequiredForSell(req), checkOrderSizing(req) >>

FirstFailure(req, book) ==
    LET v == GateVerdicts(req, book)
        failing == {i \in 1..4 : ~v[i].passed}
    IN IF failing = {} THEN "none"
       ELSE v[CHOOSE i \in failing : \A j \in failing : i <= j].reason

\* variant: Gate 4 is not consulted
GatesAfterLease_NoSizing(req, book) ==
    IF ~checkViabilityGate(req, book).passed THEN checkViabilityGate(req, book)
    ELSE IF ~checkEdgeGate(req).passed THEN checkEdgeGate(req)
    ELSE IF ~checkPositionRequiredForSell(req).passed
         THEN checkPositionRequiredForSell(req)
    ELSE Pass

\* the gates of executeOrderGuarded after the lease, in their order,
\* short-circuiting on the first failure
GatesAfterLease(req, book) ==
    IF ~checkViabilityGate(req, book).passed THEN checkViabilityGate(req, book)
    ELSE IF ~checkEdgeGate(req).passed THEN checkEdgeGate(req)
    ELSE IF ~checkPositionRequiredForSell(req).passed
         THEN checkPositionRequiredForSell(req)
    ELSE IF ~checkOrderSizing(req).passed THEN checkOrderSizing(req)
    ELSE Pass

\* ------------------------------------------------------------- OrderResult
\* undefined fields: reason "undef", numbers NoNum, key NoKey; isRetryable
\* is only read for its truthiness, so undefined is FALSE
Result(executed, skipped, failed, reason, isRetryable, tokens, size, orderId, key) ==
    [ executed |-> executed, skipped |-> skipped, failed |-> failed,
      reason |-> reason, isRetryable |-> isRetryable,
      filledTokens |-> tokens, filledSize |-> size,
      orderId |-> orderId, idempotencyKey |-> key ]

NoResult == Result(FALSE, FALSE, FALSE, "undef", FALSE, NoNum, NoNum, NoNum, NoKey)

\* executeOrderGuarded, the skipped result of a blocked gate
GateSkipped(reason) ==
    Result(FALSE, TRUE, FALSE, reason, FALSE, NoNum, NoNum, NoNum, NoKey)

\* executeOrderGuarded, the result of the idempotency pre-check
IdempotencySkipped(r) ==
    Result(FALSE, TRUE, FALSE, "idempotency_already_executed", FALSE,
           NoNum, NoNum, r.clobOrderId, r.idempotencyKey)

\* executeOrderGuarded, the result when the lease was not acquired
LeaseFailed ==
    Result(FALSE, FALSE, TRUE, "lease_acquisition_failed", TRUE,
           NoNum, NoNum, NoNum, NoKey)

\* executeOrderGuarded, the result when the reservation was lost;
\* reserveIdempotencyKey re-reads the record for the existing key and order
ReservationLost(r) ==
    IF r.idempotencyKey # NoKey
    THEN Result(FALSE, TRUE, FALSE, "idempotency_in_progress", FALSE,
                NoNum, NoNum, r.clobOrderId, r.idempotencyKey)
    ELSE Result(FALSE, TRUE, FALSE, "idempotency_in_progress", FALSE,
                NoNum, NoNum, NoNum, NoKey)

\* executeOrderGuarded, the catch block around executeOrderLoop
ExecutionError ==
    Result(FALSE, FALSE, TRUE, "execution_error", TRUE, NoNum, NoNum, NoNum, NoKey)

\* executeOrderLoop, the return inside the loop when the slippage gate fails
SlippageStop(reason, tokens, usd, key) ==
    Result(tokens > 0, TRUE, FALSE, reason, FALSE, tokens, usd, NoNum, key)

\* variant: a rejection for funds or allowance is reported like an
\* exhausted retry budget
LoopResult_FundsRetryable(abortDueToFunds, retry, tokens, usd, lastOrderId, key) ==
    IF abortDueToFunds \/ retry >= RETRY_LIMIT
    THEN Result(tokens > 0, FALSE, TRUE, "max_retries_exceeded", TRUE,
                tokens, usd, lastOrderId, key)
    ELSE Result(TRUE, FALSE, FALSE, "undef", FALSE, tokens, usd, lastOrderId, key)

\* executeOrderLoop, "Determine result" after the loop
LoopResult(abortDueToFunds, retry, tokens, usd, lastOrderId, key) ==
    IF abortDueToFunds
    THEN Result(tokens > 0, FALSE, TRUE, "insufficient_funds_or_allowance", FALSE,
                tokens, usd, lastOrderId, key)
    ELSE IF retry >= RETRY_LIMIT
    THEN Result(tokens > 0, FALSE, TRUE, "max_retries_exceeded", TRUE,
                tokens, usd, lastOrderId, key)
    ELSE Result(TRUE, FALSE, FALSE, "undef", FALSE, tokens, usd, lastOrderId, key)

\* --------------------------------------------------------------- writeback
\* checkNeedsManualReview: fillRatio < 0.8 or > 1.2 (PARTIAL_FILL_THRESHOLD 0.20)
checkNeedsManualReview(intendedSize, filledSize) ==
    IF intendedSize = NoNum \/ intendedSize = 0 \/ filledSize = NoNum \/ filledSize = 0
    THEN FALSE
    ELSE filledSize * 100 < 80 * intendedSize \/ filledSize * 100 > 120 * intendedSize

\* updateTradeState, one branch per target state
UpdateSkipped(r, reason, intendedSize) ==
    [r EXCEPT !.lifecycleState = "skipped",
              !.bot = TRUE,
              !.skipReason = IF reason = "undef" THEN "unknown" ELSE reason,
              !.intendedSize = IF intendedSize # NoNum THEN intendedSize ELSE @]

\* variant: a failed outcome clears the key so that a retry can run again
UpdateFailed_ClearsKey(r, reason, isRetryable, intendedSize, currentRetryCount) ==
    [r EXCEPT !.lifecycleState = "failed",
              !.bot = ~isRetryable,
              !.failureReason = IF reason = "undef" THEN "unknown" ELSE reason,
              !.retryCount = IF isRetryable THEN currentRetryCount + 1 ELSE @,
              !.botExcutedTime = IF isRetryable THEN @ ELSE RETRY_LIMIT,
              !.intendedSize = IF intendedSize # NoNum THEN intendedSize ELSE @,
              !.idempotencyKey = NoKey]

UpdateFailed(r, reason, isRetryable, intendedSize, currentRetryCount) ==
    [r EXCEPT !.lifecycleState = "failed",
              !.bot = ~isRetryable,
              !.failureReason = IF reason = "undef" THEN "unknown" ELSE reason,
              !.retryCount = IF isRetryable THEN currentRetryCount + 1 ELSE @,
              !.botExcutedTime = IF isRetryable THEN @ ELSE RETRY_LIMIT,
              !.intendedSize = IF intendedSize # NoNum THEN intendedSize ELSE @]

UpdateExecuted(r, tokens, filledSize, orderId, key, intendedSize, needsReview) ==
    [r EXCEPT !.lifecycleState = "executed",
              !.bot = TRUE,
              !.myBoughtSize = IF tokens # NoNum THEN tokens ELSE @,
              !.actualTokens = IF tokens # NoNum THEN tokens ELSE @,
              !.filledSize = IF filledSize # NoNum THEN filledSize ELSE @,
              !.clobOrderId = IF orderId # NoNum THEN orderId ELSE @,
              !.idempotencyKey = IF key # NoKey THEN key ELSE @,
              !.intendedSize = IF intendedSize # NoNum THEN intendedSize ELSE @,
              !.needsManualReview = needsReview]

\* handleExecutionResult: skipped is tested first, then failed, then executed
handleExecutionResult(r, retryCount, result, intendedSize) ==
    IF result.skipped
    THEN UpdateSkipped(r, result.reason, intendedSize)
    ELSE IF result.failed
    THEN UpdateFailed(r, result.reason, result.isRetryable, intendedSize, retryCount)
    ELSE IF result.executed
    THEN UpdateExecuted(r, result.filledTokens, result.filledSize, result.orderId,
                        result.idempotencyKey, intendedSize,
                        checkNeedsManualReview(intendedSize, result.filledSize))
    ELSE r

\* ------------------------------------------------------------ order books
Level(price, size) == [price |-> price, size |-> size]
Book(bids, asks) == [throws |-> FALSE, bids |-> bids, asks |-> asks]
ThrowingBook == [throws |-> TRUE, bids |-> << >>, asks |-> << >>]
EmptyBook == Book(<< >>, << >>)

\* executeOrderLoop: asks.reduce keeping the first level of the lowest price
RECURSIVE MinAsk(_, _)
MinAsk(best, levels) ==
    IF levels = << >> THEN best
    ELSE MinAsk(IF Head(levels).price < best.price THEN Head(levels) ELSE best,
                Tail(levels))

\* executeOrderLoop: bids.reduce keeping the first level of the highest price
RECURSIVE MaxBid(_, _)
MaxBid(best, levels) ==
    IF levels = << >> THEN best
    ELSE MaxBid(IF Head(levels).price > best.price THEN Head(levels) ELSE best,
                Tail(levels))

\* ------------------------------------------------------------------- tasks
NoRequest ==
    [ side |-> "none", amount |-> NoNum, traderPrice |-> NoNum,
      hasEndDate |-> FALSE, endMinutes |-> NoNum, myPositionSize |-> NoNum,
      tradeUsdcSize |-> NoNum, tradeTimestamp |-> NoNum ]

\* a task's position in postOrder / executeOrderGuarded and its locals:
\*   cid          the number of this processing attempt
\*   retryCount   trade.retryCount of the trade object handed to postOrder
\*   entry        the record's lifecycleState when executeOrderGuarded
\*                was entered
\*   blocked      the reason of the first gate that returned failure in
\*                this call, "none" while no gate has
\*   vbook        the order book checkMarketViability fetched in this call
\*   previousBuys the myBoughtSize of each tracked BUY as postOrder's SELL
\*                strategy read them before the call (0: not among them)
IdleTask ==
    [ pc |-> "idle", cid |-> 0, retryCount |-> 0, req |-> NoRequest,
      intended |-> NoNum, entry |-> "none", blocked |-> "none",
      previousBuys |-> [i \in TradeIds |-> 0],
      vbook |-> EmptyBook, acqNow |-> NoNum, key |-> NoKey,
      remaining |-> 0, retry |-> 0, abortDueToFunds |-> FALSE,
      totalFilledTokens |-> 0, totalFilledUsd |-> 0, lastOrderId |-> NoNum,
      res |-> NoResult ]

DeadTask == [IdleTask EXCEPT !.pc = "dead"]

SetTask(t, k) == task' = [task EXCEPT ![t] = k]

\* The executor loop (services/tradeExecutor): picks a record that is
\* detected, or failed with retries left, and hands the trade object it read
\* to postOrder.  A shutdown signal stops the loop at its next iteration.
Eligible(r) ==
    \/ r.lifecycleState = "detected"
    \/ (r.lifecycleState = "failed" /\ r.retryCount < RETRY_LIMIT)

Select(t) ==
    /\ task[t].pc = "idle"
    /\ proc[workerOf[t]] = "running"
    /\ ncalls < MaxCalls
    /\ Eligible(rec)
    /\ ncalls' = ncalls + 1
    /\ SetTask(t, [IdleTask EXCEPT !.pc = "post", !.cid = ncalls + 1,
                                   !.retryCount = rec.retryCount])
    /\ UNCHANGED <<now, rec, workerOf, nextOid, orders, entered, reconVars, proc, env, edge>>

\* postOrder's early return `updateOne({_id}, {bot: true})`
MarkBot(t) ==
    /\ rec' = [rec EXCEPT !.bot = TRUE]
    /\ SetTask(t, IdleTask)

\* executeOrderGuarded up to its first store request: Gate 0
\* postOrder, SELL strategy: the find of previousBuys (same asset, side
\* BUY, bot: true, myBoughtSize > 0), as the myBoughtSize read per record
PreviousBuys(trs, trade) ==
    [ i \in TradeIds |->
        IF /\ trs[i].asset = trade.asset
           /\ trs[i].side = "BUY"
           /\ trs[i].bot
           /\ trs[i].myBoughtSize # NoNum /\ trs[i].myBoughtSize > 0
        THEN trs[i].myBoughtSize ELSE 0 ]

\* postOrder, "Update tracked purchases after successful sell": with
\* sellPercentage = filledTokens / totalBoughtTokens >= 0.99 one updateMany
\* clears every record the query matches now; otherwise each record read
\* before is set to the size read then times (1 - sellPercentage)
TrackedAfterSell(trs, trade, buys, filledTokens) ==
    LET RECURSIVE sum(_)
        sum(n) == IF n = 0 THEN 0 ELSE buys[n] + sum(n - 1)
        totalBoughtTokens == sum(MaxTrades)
    IN IF filledTokens * 100 >= 99 * totalBoughtTokens
       THEN [ i \in TradeIds |->
                IF PreviousBuys(trs, trade)[i] > 0
                THEN [trs[i] EXCEPT !.myBoughtSize = 0] ELSE trs[i] ]
       ELSE [ i \in TradeIds |->
                IF buys[i] > 0
                THEN [trs[i] EXCEPT !.myBoughtSize =
                        (buys[i] * (totalBoughtTokens - filledTokens))
                            \div totalBoughtTokens]
                ELSE trs[i] ]

EnterGuarded(t, req, intended, buys) ==
    LET g == checkTimestampGate(req, now)
        k == [task[t] EXCEPT !.req = req, !.intended = intended,
                             !.previousBuys = buys,
                             !.entry = rec.lifecycleState,
                             !.blocked = checkTimestampGate(req, now).reason]
    IN /\ rec' = rec
       /\ IF ~g.passed
          THEN SetTask(t, [k EXCEPT !.pc = "wb", !.res = GateSkipped(g.reason)])
          ELSE SetTask(t, [k EXCEPT !.pc = "idem"])

\* postOrder: the MERGE, BUY and SELL strategies up to executeOrderGuarded.
\* pos is my_position.size (NoNum without a position), amt the computed
\* orderCalc.finalAmount (BUY) or sellAmount (SELL), end the endDate taken
\* from the positions.
PostOrder(t, D) ==
    /\ task[t].pc = "post"
    /\ \E cond \in D.conds, pos \in D.positions, amt \in D.amounts, end \in D.ends :
         LET base == [ NoRequest EXCEPT !.hasEndDate = end.has,
                                        !.endMinutes = end.minutes,
                                        !.myPositionSize = pos,
                                        !.tradeTimestamp = rec.timestamp ]
         IN
         CASE cond = "merge" ->
                IF pos = NoNum \/ pos < MIN_ORDER_SIZE_TOKENS
                THEN MarkBot(t)
                ELSE EnterGuarded(t, [base EXCEPT !.side = "MERGE", !.amount = pos,
                                                  !.traderPrice = rec.price], pos,
                                  [i \in TradeIds |-> 0])
           [] cond = "buy" ->
                IF amt = 0
                THEN MarkBot(t)
                ELSE EnterGuarded(t, [base EXCEPT !.side = "BUY", !.amount = amt,
                                                  !.traderPrice = rec.price,
                                                  !.tradeUsdcSize = rec.usdcSize], amt,
                                  [i \in TradeIds |-> 0])
           [] cond = "sell" ->
                IF pos = NoNum
                THEN /\ rec' = UpdateSkipped(rec, "no_position_to_sell", NoNum)
                     /\ SetTask(t, IdleTask)
                ELSE IF amt < MIN_ORDER_SIZE_TOKENS
                THEN MarkBot(t)
                ELSE EnterGuarded(t, [base EXCEPT !.side = "SELL",
                                                  !.amount = Min(amt, pos),
                                                  !.traderPrice = rec.price,
                                                  !.tradeUsdcSize = rec.usdcSize],
                                  Min(amt, pos), PreviousBuys(trades, rec))
    /\ UNCHANGED <<now, workerOf, ncalls, nextOid, orders, entered, reconVars, proc, env, edge>>

\* executeOrderGuarded called with a request of the caller's own making, as
\* the executor's tests do; the outcome is written back as postOrder does
DirectCall(t, D) ==
    /\ task[t].pc = "post"
    /\ \E side \in D.sides, amt \in D.amounts, pos \in D.positions,
          usd \in D.usdcs, end \in D.ends, ts \in D.timestamps,
          tp \in D.traderPrices :
         EnterGuarded(t, [ side |-> side, amount |-> amt,
                           traderPrice |-> tp,
                           hasEndDate |-> end.has, endMinutes |-> end.minutes,
                           myPositionSize |-> pos, tradeUsdcSize |-> usd,
                           tradeTimestamp |-> ts ], amt, [i \in TradeIds |-> 0])
    /\ UNCHANGED <<now, workerOf, ncalls, nextOid, orders, entered, reconVars, proc, env, edge>>

\* acquireLease called on its own: `const now = Date.now()` before the
\* store request
BeginAcquire(t) ==
    /\ task[t].pc = "call"
    /\ SetTask(t, [task[t] EXCEPT !.pc = "acq", !.acqNow = now])
    /\ UNCHANGED <<now, rec, workerOf, ncalls, nextOid, orders, entered, reconVars, proc, env, edge>>

\* executeOrderGuarded: checkIdempotency (findById); on a pass the code runs
\* on into acquireLease, which reads Date.now() before its store request
CheckIdempotency(t) ==
    /\ task[t].pc = "idem"
    /\ IF IdempotencySkip(rec)
       THEN SetTask(t, [task[t] EXCEPT !.pc = "wb", !.res = IdempotencySkipped(rec)])
       ELSE SetTask(t, [task[t] EXCEPT !.pc = "acq", !.acqNow = now])
    /\ UNCHANGED <<now, rec, workerOf, ncalls, nextOid, orders, entered, reconVars, proc, env, edge>>

\* acquireLease: the atomic findOneAndUpdate
AcquireLease(t) ==
    /\ task[t].pc = "acq"
    /\ LET u == AcquireUpdate(rec, getWorkerId(t), task[t].acqNow,
                              DEFAULT_LEASE_TIMEOUT_MS)
       IN /\ rec' = u.rec
          /\ SetTask(t, [task[t] EXCEPT !.pc = IF u.ok THEN "gates" ELSE "acqRead",
                                          !.acqNow = NoNum])
    /\ UNCHANGED <<now, workerOf, ncalls, nextOid, orders, entered, reconVars, proc, env, edge>>

\* acquireLease: the findById after a failed update
AcquireLeaseRead(t) ==
    /\ task[t].pc = "acqRead"
    /\ IF AcquireOwnCheck(rec, getWorkerId(t))
       THEN SetTask(t, [task[t] EXCEPT !.pc = "gates"])
       ELSE SetTask(t, [task[t] EXCEPT !.pc = "wb", !.res = LeaseFailed])
    /\ UNCHANGED <<now, rec, workerOf, ncalls, nextOid, orders, entered, reconVars, proc, env, edge>>

\* executeOrderGuarded: Gates 1-4 on the book the viability check fetched;
\* when they pass, the key is generated before the reservation request
Gates(t, D) ==
    /\ task[t].pc = "gates"
    /\ \E book \in D.vbooks :
         LET g == GatesAfterLease(task[t].req, book)
             k == [task[t] EXCEPT !.blocked = FirstFailure(task[t].req, book),
                                  !.vbook = book]
         IN IF ~g.passed
            THEN SetTask(t, [k EXCEPT !.pc = "rel", !.res = GateSkipped(g.reason)])
            ELSE SetTask(t, [k EXCEPT !.pc = "reserve",
                               !.key = generateIdempotencyKey(k.req.side, now)])
    /\ UNCHANGED <<now, rec, workerOf, ncalls, nextOid, orders, entered, reconVars, proc, env, edge>>

\* reserveIdempotencyKey: the atomic findOneAndUpdate
Reserve(t) ==
    /\ task[t].pc = "reserve"
    /\ LET u == ReserveUpdate(rec, task[t].key)
       IN /\ rec' = u.rec
          /\ IF u.reserved
             THEN /\ SetTask(t, [task[t] EXCEPT !.pc = "loop",
                                                !.remaining = task[t].req.amount])
                  /\ entered' = entered \cup {task[t].cid}
             ELSE /\ SetTask(t, [task[t] EXCEPT !.pc = "reserveRead"])
                  /\ entered' = entered
    /\ UNCHANGED <<now, workerOf, ncalls, nextOid, orders, reconVars, proc, env, edge>>

\* reserveIdempotencyKey: the findById after a lost reservation
ReserveRead(t) ==
    /\ task[t].pc = "reserveRead"
    /\ SetTask(t, [task[t] EXCEPT !.pc = "rel", !.res = ReservationLost(rec)])
    /\ UNCHANGED <<now, rec, workerOf, ncalls, nextOid, orders, entered, reconVars, proc, env, edge>>

\* reserveIdempotencyKey: the store rejects the findOneAndUpdate.  The call
\* stands before the try block of executeOrderGuarded, so the rejection
\* leaves executeOrderGuarded and postOrder; nothing is written
ReserveThrows(t) ==
    /\ task[t].pc = "reserve"
    /\ SetTask(t, [task[t] EXCEPT !.pc = "thrown"])
    /\ UNCHANGED <<now, rec, workerOf, ncalls, nextOid, orders, entered, reconVars, proc, env, edge>>

\* executeOrderLoop leaves the loop: "Determine result"
FinishLoop(t) ==
    /\ SetTask(t, [task[t] EXCEPT !.pc = "rel",
                     !.res = LoopResult(task[t].abortDueToFunds, task[t].retry,
                                        task[t].totalFilledTokens,
                                        task[t].totalFilledUsd,
                                        task[t].lastOrderId, task[t].key)])
    /\ UNCHANGED <<nextOid, orders>>

\* variant: a failed sub-order leaves the retry counter as it was
SubmitOrder_FailureNotCounted(t, D, amount, price, tokens, usd) ==
    /\ \E resp \in D.responses :
         LET k == task[t]
             id == IF resp = "ok" THEN nextOid + 1 ELSE NoNum
         IN
         /\ resp = "ok" => nextOid < MaxOrders
         /\ nextOid' = IF resp = "ok" THEN nextOid + 1 ELSE nextOid
         /\ orders' = orders \cup
                {[ cid |-> k.cid, success |-> resp \in {"ok", "ok_noid"},
                   orderID |-> id, side |-> k.req.side, amount |-> amount,
                   price |-> price,
                   traderPrice |-> k.req.traderPrice ]}
         /\ CASE resp \in {"ok", "ok_noid"} ->
                  SetTask(t, [k EXCEPT !.retry = 0,
                                       !.totalFilledTokens = @ + tokens,
                                       !.totalFilledUsd = @ + usd,
                                       !.remaining = @ - amount,
                                       !.lastOrderId = id])
              [] resp = "funds" ->
                  \* abortDueToFunds = true; break
                  SetTask(t, [k EXCEPT !.pc = "rel", !.abortDueToFunds = TRUE,
                       !.res = LoopResult(TRUE, k.retry, k.totalFilledTokens,
                                          k.totalFilledUsd, k.lastOrderId, k.key)])
              [] resp = "fail" ->
                  SetTask(t, k)
              [] resp = "throw" ->
                  SetTask(t, [k EXCEPT !.pc = "rel", !.res = ExecutionError])

\* variant: a fill adds the tokens to the USD total and the USD to the tokens
SubmitOrder_TotalsSwapped(t, D, amount, price, tokens, usd) ==
    /\ \E resp \in D.responses :
         LET k == task[t]
             id == IF resp = "ok" THEN nextOid + 1 ELSE NoNum
         IN
         /\ resp = "ok" => nextOid < MaxOrders
         /\ nextOid' = IF resp = "ok" THEN nextOid + 1 ELSE nextOid
         /\ orders' = orders \cup
                {[ cid |-> k.cid, success |-> resp \in {"ok", "ok_noid"},
                   orderID |-> id, side |-> k.req.side, amount |-> amount,
                   price |-> price,
                   traderPrice |-> k.req.traderPrice ]}
         /\ CASE resp \in {"ok", "ok_noid"} ->
                  SetTask(t, [k EXCEPT !.retry = 0,
                                       !.totalFilledTokens = @ + usd,
                                       !.totalFilledUsd = @ + tokens,
                                       !.remaining = @ - amount,
                                       !.lastOrderId = id])
              [] resp = "funds" ->
                  \* abortDueToFunds = true; break
                  SetTask(t, [k EXCEPT !.pc = "rel", !.abortDueToFunds = TRUE,
                       !.res = LoopResult(TRUE, k.retry, k.totalFilledTokens,
                                          k.totalFilledUsd, k.lastOrderId, k.key)])
              [] resp = "fail" ->
                  SetTask(t, [k EXCEPT !.retry = @ + 1])
              [] resp = "throw" ->
                  SetTask(t, [k EXCEPT !.pc = "rel", !.res = ExecutionError])

\* createMarketOrder + postOrder(FOK) for `amount` at `price`, and the
\* handling of the response; tokens/usd are what a fill adds to the totals
SubmitOrder(t, D, amount, price, tokens, usd) ==
    /\ \E resp \in D.responses :
         LET k == task[t]
             id == IF resp = "ok" THEN nextOid + 1 ELSE NoNum
         IN
         /\ resp = "ok" => nextOid < MaxOrders
         /\ nextOid' = IF resp = "ok" THEN nextOid + 1 ELSE nextOid
         /\ orders' = orders \cup
                {[ cid |-> k.cid, success |-> resp \in {"ok", "ok_noid"},
                   orderID |-> id, side |-> k.req.side, amount |-> amount,
                   price |-> price,
                   traderPrice |-> k.req.traderPrice ]}
         /\ CASE resp \in {"ok", "ok_noid"} ->
                  SetTask(t, [k EXCEPT !.retry = 0,
                                       !.totalFilledTokens = @ + tokens,
                                       !.totalFilledUsd = @ + usd,
                                       !.remaining = @ - amount,
                                       !.lastOrderId = id])
              [] resp = "funds" ->
                  \* abortDueToFunds = true; break
                  SetTask(t, [k EXCEPT !.pc = "rel", !.abortDueToFunds = TRUE,
                       !.res = LoopResult(TRUE, k.retry, k.totalFilledTokens,
                                          k.totalFilledUsd, k.lastOrderId, k.key)])
              [] resp = "fail" ->
                  SetTask(t, [k EXCEPT !.retry = @ + 1])
              [] resp = "throw" ->
                  SetTask(t, [k EXCEPT !.pc = "rel", !.res = ExecutionError])

\* executeOrderLoop: one pass of the while loop (book fetch, checks, one
\* sub-order), or the exit when the loop condition fails
OrderLoop(t, D) ==
    /\ task[t].pc = "loop"
    /\ LET k == task[t]
           isBuy == k.req.side = "BUY"
       IN
       IF ~(k.remaining > 0 /\ k.retry < RETRY_LIMIT)
       THEN FinishLoop(t)
       ELSE \E book \in D.lbooks :
            IF book.throws
            THEN /\ SetTask(t, [k EXCEPT !.pc = "rel", !.res = ExecutionError])
                 /\ UNCHANGED <<nextOid, orders>>
            ELSE IF isBuy
            THEN IF book.asks = << >>
                 THEN FinishLoop(t)
                 ELSE LET bestAsk == MinAsk(book.asks[1], book.asks)
                          currentPrice == bestAsk.price
                          slip == checkSlippageGate("BUY", currentPrice, k.req.traderPrice)
                          maxOrderSize == (bestAsk.size * currentPrice) \div 100
                          orderSize == Min(k.remaining, maxOrderSize)
                      IN IF ~slip.passed
                         THEN /\ SetTask(t, [k EXCEPT !.pc = "rel",
                                   !.res = SlippageStop(slip.reason, k.totalFilledTokens,
                                                        k.totalFilledUsd, k.key)])
                              /\ UNCHANGED <<nextOid, orders>>
                         ELSE IF k.remaining < MIN_ORDER_SIZE_USD
                         THEN FinishLoop(t)
                         ELSE SubmitOrder(t, D, orderSize, currentPrice,
                                          (orderSize * 100) \div currentPrice, orderSize)
            ELSE IF book.bids = << >>
                 THEN FinishLoop(t)
                 ELSE LET bestBid == MaxBid(book.bids[1], book.bids)
                          currentPrice == bestBid.price
                          sellAmount == Min(k.remaining, bestBid.size)
                          slip == checkSlippageGate("SELL", currentPrice, k.req.traderPrice)
                      IN IF k.remaining < MIN_ORDER_SIZE_TOKENS
                         THEN FinishLoop(t)
                         ELSE IF sellAmount < MIN_ORDER_SIZE_TOKENS
                         THEN FinishLoop(t)
                         ELSE IF ~slip.passed
                         THEN /\ SetTask(t, [k EXCEPT !.pc = "rel",
                                   !.res = SlippageStop(slip.reason, k.totalFilledTokens,
                                                        k.totalFilledUsd, k.key)])
                              /\ UNCHANGED <<nextOid, orders>>
                         ELSE SubmitOrder(t, D, sellAmount, currentPrice, sellAmount,
                                          (sellAmount * currentPrice) \div 100)
    /\ UNCHANGED <<now, rec, workerOf, ncalls, entered, reconVars, proc, env, edge>>

\* executeOrderGuarded: ctx.releaseLease before returning the result
ReleaseLease(t) ==
    /\ task[t].pc = "rel"
    /\ rec' = ReleaseUpdate(rec, getWorkerId(t))
    /\ SetTask(t, [task[t] EXCEPT !.pc = "wb"])
    /\ UNCHANGED <<now, workerOf, ncalls, nextOid, orders, entered, reconVars, proc, env, edge>>

\* postOrder: handleExecutionResult writes the outcome of the returned
\* result; the SELL strategy goes on to the tracked purchases when
\* `result.executed && result.filledTokens > 0 && totalBoughtTokens > 0`
Writeback(t) ==
    /\ task[t].pc = "wb"
    /\ rec' = handleExecutionResult(rec, task[t].retryCount, task[t].res,
                                    task[t].intended)
    /\ IF /\ task[t].res.executed
          /\ task[t].res.filledTokens # NoNum /\ task[t].res.filledTokens > 0
          /\ \E i \in TradeIds : task[t].previousBuys[i] > 0
       THEN SetTask(t, [task[t] EXCEPT !.pc = "track"])
       ELSE SetTask(t, IdleTask)
    /\ UNCHANGED <<now, workerOf, ncalls, nextOid, orders, entered, reconVars, proc, env, edge>>

\* postOrder, SELL strategy: the update of the tracked purchases (the
\* updateMany, or the updateOne per record read before, taken as one step)
UpdateTracked(t) ==
    /\ task[t].pc = "track"
    /\ trades' = TrackedAfterSell(trades, rec, task[t].previousBuys,
                                  task[t].res.filledTokens)
    /\ SetTask(t, IdleTask)
    /\ UNCHANGED <<now, rec, workerOf, ncalls, nextOid, orders, entered, held, recon,
                   proc, env, edge>>

\* postOrder run by another process on another SELL of the same asset
\* that fills `filledTokens`, from its find of previousBuys to its update
\* of the tracked purchases
ConcurrentSell(filledTokens) ==
    /\ \E i \in TradeIds : PreviousBuys(trades, rec)[i] > 0
    /\ trades' = TrackedAfterSell(trades, rec, PreviousBuys(trades, rec), filledTokens)
    /\ trades' # trades
    /\ UNCHANGED <<now, rec, task, workerOf, ncalls, nextOid, orders, entered, held,
                   recon, proc, env, edge>>

\* clearExpiredLeases, run as maintenance at any time (a run that matches
\* no record changes nothing)
ClearExpiredLeases ==
    /\ ClearExpiredFilter(rec, now)
    /\ rec' = ClearExpiredUpdate(rec, now)
    /\ UNCHANGED <<now, task, workerOf, ncalls, nextOid, orders, entered, reconVars, proc, env, edge>>

\* markTradesReconciled(assets): one updateMany over the collection
MarkTradesReconciled ==
    /\ \E assets \in SUBSET Assets :
         /\ rec' = MarkReconciledUpdate(rec, assets)
         /\ trades' = [i \in TradeIds |-> MarkReconciledUpdate(trades[i], assets)]
         /\ (rec' # rec \/ trades' # trades)
    /\ UNCHANGED <<now, task, workerOf, ncalls, nextOid, orders, entered, held, recon, proc, env, edge>>

\* a process dies: all its tasks stop where they are, nothing is written
Crash(w) ==
    /\ \E t \in Tasks : workerOf[t] = w /\ task[t].pc \notin {"idle", "dead"}
    /\ task' = [t \in Tasks |-> IF workerOf[t] = w THEN DeadTask ELSE task[t]]
    /\ UNCHANGED <<now, rec, workerOf, ncalls, nextOid, orders, entered, reconVars, proc, env, edge>>

\* process.exit: all tasks of the process stop where they are
ExitProcess(w, how) ==
    /\ proc' = [proc EXCEPT ![w] = how]
    /\ task' = [t \in Tasks |-> IF workerOf[t] = w THEN DeadTask ELSE task[t]]

\* gracefulShutdown on SIGTERM/SIGINT: the first signal sets isShuttingDown
\* and stops the services; a signal during the shutdown forces the exit
GracefulShutdown(w) ==
    /\ proc[w] \in {"running", "stopping"}
    /\ IF proc[w] = "running"
       THEN proc' = [proc EXCEPT ![w] = "stopping"] /\ task' = task
       ELSE ExitProcess(w, "forced")
    /\ UNCHANGED <<now, rec, workerOf, ncalls, nextOid, orders, entered, reconVars, env, edge>>

\* gracefulShutdown: the 2000 ms wait is over; closeDB, process.exit(0)
ShutdownExit(w) ==
    /\ proc[w] = "stopping"
    /\ ExitProcess(w, "exited")
    /\ UNCHANGED <<now, rec, workerOf, ncalls, nextOid, orders, entered, reconVars, env, edge>>

\* time passes
Tick ==
    /\ now < Epoch0 + MaxTime * TickSec
    /\ now' = now + TickSec
    /\ UNCHANGED <<rec, task, workerOf, ncalls, nextOid, orders, entered, reconVars, proc, env, edge>>

\* ------------------------------------------------------------ input domains
GoodBook == Book(<<Level(50, 2000)>>, <<Level(52, 2000)>>)
WideBook == Book(<<Level(50, 2000)>>, <<Level(53, 2000)>>)
ThinBook == Book(<<Level(50, 100)>>, <<Level(52, 100)>>)
ResolvedBook == Book(<<Level(96, 2000)>>, <<Level(97, 2000)>>)
\* a resolved market with next to no liquidity left
ResolvedThinBook == Book(<<Level(96, 100)>>, <<Level(97, 100)>>)
\* books met by the order loop: the best level holds 1 token / 4 tokens
SmallBook == Book(<<Level(50, 100), Level(48, 400)>>, <<Level(52, 400), Level(50, 200)>>)
DeepBook == Book(<<Level(50, 400)>>, <<Level(50, 400)>>)
SlippedBook == Book(<<Level(44, 400)>>, <<Level(56, 400)>>)
\* 400 bps away from a leader price of 0.50 on either side
NearBook == Book(<<Level(48, 400)>>, <<Level(52, 400)>>)

NoEnd == [has |-> FALSE, minutes |-> NoNum]
EndIn(m) == [has |-> TRUE, minutes |-> m]

\* the inputs the concurrent specification draws from
DMain ==
    [ conds |-> {"buy"},
      positions |-> {200},
      amounts |-> {200},
      ends |-> {EndIn(120)},
      vbooks |-> {GoodBook, WideBook},
      lbooks |-> {SmallBook, SlippedBook},
      responses |-> {"ok", "fail", "funds"} ]

\* the collection holds no other record that the reconciliation queries
\* match, the follower holds nothing, and no reconciliation is under way
\* no call of checkEdgeFilters on its own is being made
NoEdgeCall ==
    [ done |-> FALSE,
      trade |-> [usdcSize |-> NoNum, size |-> NoNum, side |-> "BUY"],
      myPosition |-> NoNum, traderPosition |-> NoNum,
      config |-> getEdgeConfig,
      result |-> [shouldCopy |-> FALSE, reason |-> "none"] ]

QuietLedger ==
    /\ trades = [i \in TradeIds |-> TradeRecord("a1", "BUY", "detected", FALSE, NoNum, 500)]
    /\ held = [a \in Assets |-> 0]
    /\ recon = IdleRecon
    /\ proc = [w \in WorkerIds |-> "running"]

\* ----------------------------------------------------------- specification
InitWith(timestamps, prices, usdcSizes) ==
    /\ now = Epoch0
    /\ \E ts \in timestamps, p \in prices, u \in usdcSizes : rec = NewRecord(ts, p, u)
    /\ task = [t \in Tasks |-> IdleTask]
    /\ workerOf \in {f \in [Tasks -> WorkerIds] : f["t1"] = "w1"}
    /\ ncalls = 0
    /\ nextOid = 0
    /\ orders = {}
    /\ entered = {}
    /\ QuietLedger
    /\ env = DefaultEnv
    /\ edge = NoEdgeCall

Init == InitWith({Epoch0}, {50}, {1000})

NextWith(D) ==
    \/ \E t \in Tasks : Select(t)
    \/ \E t \in Tasks : PostOrder(t, D)
    \/ \E t \in Tasks : CheckIdempotency(t)
    \/ \E t \in Tasks : AcquireLease(t)
    \/ \E t \in Tasks : AcquireLeaseRead(t)
    \/ \E t \in Tasks : Gates(t, D)
    \/ \E t \in Tasks : Reserve(t)
    \/ \E t \in Tasks : ReserveRead(t)
    \/ \E t \in Tasks : OrderLoop(t, D)
    \/ \E t \in Tasks : ReleaseLease(t)
    \/ \E t \in Tasks : Writeback(t)
    \/ \E w \in WorkerIds : Crash(w)
    \/ ClearExpiredLeases
    \/ MarkTradesReconciled
    \/ Tick

Next == NextWith(DMain)

Spec == Init /\ [][Next]_vars

\* ------------------------------------------- two acquireLease calls racing
\* Two processes call acquireLease on one record that is claimable when the
\* calls start.  Both calls finish within one lease timeout of the first
\* clock reading: RaceTick never moves the clock further than that.
RaceStep == 10

LeaseHolders == WorkerIds \cup {"w3"}

StoredKey == generateIdempotencyKey("BUY", Epoch0 - DEFAULT_LEASE_TIMEOUT_MS)

\* the records acquireLease can meet with claimedBy null or the lease expired
ClaimableRecords ==
    { [NewRecord(Epoch0, 50, 1000) EXCEPT
          !.lifecycleState = st,
          !.claimedBy = by,
          !.leaseExpiresAt = IF by = NullStr THEN NoNum ELSE Epoch0 - 1,
          !.claimedAt = IF by = NullStr /\ st = "detected" THEN NoNum
                        ELSE Epoch0 - 1 - DEFAULT_LEASE_TIMEOUT_MS,
          !.idempotencyKey = IF st \in {"executing", "executed", "reconciled"}
                             THEN StoredKey ELSE NoKey]
      : st \in LifecycleStates, by \in LeaseHolders \cup {NullStr} }

RaceTick ==
    /\ now + RaceStep <= Epoch0 + DEFAULT_LEASE_TIMEOUT_MS
    /\ now' = now + RaceStep
    /\ UNCHANGED <<rec, task, workerOf, ncalls, nextOid, orders, entered, reconVars, proc, env, edge>>

InitRace ==
    /\ now = Epoch0
    /\ rec \in ClaimableRecords
    /\ task = [t \in Tasks |-> [IdleTask EXCEPT !.pc = "call"]]
    /\ workerOf = [t \in Tasks |-> IF t = "t1" THEN "w1" ELSE "w2"]
    /\ ncalls = 0
    /\ nextOid = 0
    /\ orders = {}
    /\ entered = {}
    /\ QuietLedger
    /\ env = DefaultEnv
    /\ edge = NoEdgeCall

NextRace ==
    \/ \E t \in Tasks : BeginAcquire(t)
    \/ \E t \in Tasks : AcquireLease(t)
    \/ \E t \in Tasks : AcquireLeaseRead(t)
    \/ RaceTick

SpecRace == InitRace /\ [][NextRace]_vars

\* ------------------------------------ the lease manager called on its own
\* Two processes call acquireLease, releaseLease and clearExpiredLeases on
\* one record, one call after the other and in any order.

\* the records the pipeline leaves behind: any lifecycle state, with nobody
\* holding the record or with a lease of w1, w2 or a third worker that has
\* expired or was taken a second ago; a detected record is held by nobody
LeaseRecords ==
    { r \in { [NewRecord(Epoch0, 50, 1000) EXCEPT
                  !.lifecycleState = st,
                  !.claimedBy = by,
                  !.leaseExpiresAt = IF by = NullStr THEN NoNum ELSE lease,
                  !.claimedAt = IF by = NullStr /\ st = "detected" THEN NoNum
                                ELSE lease - DEFAULT_LEASE_TIMEOUT_MS,
                  !.idempotencyKey =
                      IF st \in {"executing", "executed", "reconciled"}
                      THEN StoredKey ELSE NoKey]
               : st \in LifecycleStates, by \in LeaseHolders \cup {NullStr},
                 lease \in {Epoch0 - 1, Epoch0 - 1 + DEFAULT_LEASE_TIMEOUT_MS} }
        : r.lifecycleState = "detected" => r.claimedBy = NullStr }

\* releaseLease called on its own
BeginRelease(t) ==
    /\ task[t].pc = "call"
    /\ SetTask(t, [task[t] EXCEPT !.pc = "rel"])
    /\ UNCHANGED <<now, rec, workerOf, ncalls, nextOid, orders, entered, reconVars, proc, env, edge>>

\* clearExpiredLeases called on its own: `const now = Date.now()` before
\* the store request
BeginClear(t) ==
    /\ task[t].pc = "call"
    /\ SetTask(t, [task[t] EXCEPT !.pc = "clr", !.acqNow = now])
    /\ UNCHANGED <<now, rec, workerOf, ncalls, nextOid, orders, entered, reconVars, proc, env, edge>>

\* clearExpiredLeases: the updateMany
ClearExpired(t) ==
    /\ task[t].pc = "clr"
    /\ rec' = ClearExpiredUpdate(rec, task[t].acqNow)
    /\ SetTask(t, [task[t] EXCEPT !.pc = "cleared", !.acqNow = NoNum])
    /\ UNCHANGED <<now, workerOf, ncalls, nextOid, orders, entered, reconVars, proc, env, edge>>

\* a call of the lease manager has returned; the caller may call again
Returned(t) ==
    /\ task[t].pc \in {"gates", "wb", "cleared"}
    /\ SetTask(t, [IdleTask EXCEPT !.pc = "call"])
    /\ UNCHANGED <<now, rec, workerOf, ncalls, nextOid, orders, entered, reconVars, proc, env, edge>>

InitLease ==
    /\ now = Epoch0
    /\ rec \in LeaseRecords
    /\ task = [t \in Tasks |-> [IdleTask EXCEPT !.pc = "call"]]
    /\ workerOf = [t \in Tasks |-> IF t = "t1" THEN "w1" ELSE "w2"]
    /\ ncalls = 0
    /\ nextOid = 0
    /\ orders = {}
    /\ entered = {}
    /\ QuietLedger
    /\ env = DefaultEnv
    /\ edge = NoEdgeCall

NextLease ==
    \/ \E t \in Tasks : BeginAcquire(t)
    \/ \E t \in Tasks : AcquireLease(t)
    \/ \E t \in Tasks : AcquireLeaseRead(t)
    \/ \E t \in Tasks : BeginRelease(t)
    \/ \E t \in Tasks : ReleaseLease(t)
    \/ \E t \in Tasks : BeginClear(t)
    \/ \E t \in Tasks : ClearExpired(t)
    \/ \E t \in Tasks : Returned(t)
    \/ Tick

SpecLease == InitLease /\ [][NextLease]_vars

\* ------------------------------------------------ the reconciliation run
\* runReconciliation as the route /api/reconciliation/run calls it, over a
\* collection of processed records, and markTradesReconciled called on its
\* own.  The pipeline's record rec stays detected here, so that no query
\* of the run matches it.

\* the records the pipeline leaves behind: executed with 5 or 20 tokens
\* filled, skipped, or still detected; the leader traded 5 tokens
LedgerRecords ==
    { TradeRecord(a, side, "executed", TRUE, tokens, 500)
        : a \in Assets, side \in {"BUY", "SELL"}, tokens \in {500, 2000} }
    \cup
    { TradeRecord(a, side, st, st = "skipped", NoNum, 500)
        : a \in Assets, side \in {"BUY", "SELL"}, st \in {"skipped", "detected"} }

\* what the follower holds of each asset, in hundredths of a token
HeldPositions ==
    { [a \in Assets |-> IF a = "a1" THEN h1 ELSE h2]
        : h1 \in {0, 5, 489, 490, 1979, 1980}, h2 \in {0, 500} }

\* runReconciliation: `await calculateExpectedPositions()`
BeginReconciliation ==
    /\ recon.pc = "idle"
    /\ recon' = [ pc |-> "fetch",
                  result |-> [NoReconciliation EXCEPT
                                 !.expected = calculateExpectedPositions(trades)] ]
    /\ UNCHANGED <<now, rec, task, workerOf, ncalls, nextOid, orders, entered,
                   trades, held, proc, env, edge>>

\* runReconciliation: `await getActualPositions()` and the comparison
FinishReconciliation ==
    /\ recon.pc = "fetch"
    /\ \E outcome \in {"ok", "not_array", "throws"} :
         recon' = [ pc |-> "done",
                    result |-> ReconciliationResult(recon.result.expected,
                                   getActualPositions(held, outcome)) ]
    /\ UNCHANGED <<now, rec, task, workerOf, ncalls, nextOid, orders, entered,
                   trades, held, proc, env, edge>>

\* the route answers with the result; nothing else is done with it
RespondReconciliation ==
    /\ recon.pc = "done"
    /\ recon' = IdleRecon
    /\ UNCHANGED <<now, rec, task, workerOf, ncalls, nextOid, orders, entered,
                   trades, held, proc, env, edge>>

InitRecon ==
    /\ now = Epoch0
    /\ rec = NewRecord(Epoch0, 50, 1000)
    /\ task = [t \in Tasks |-> IdleTask]
    /\ workerOf = [t \in Tasks |-> IF t = "t1" THEN "w1" ELSE "w2"]
    /\ ncalls = 0
    /\ nextOid = 0
    /\ orders = {}
    /\ entered = {}
    /\ trades \in [TradeIds -> LedgerRecords]
    /\ held \in HeldPositions
    /\ recon = IdleRecon
    /\ proc = [w \in WorkerIds |-> "running"]
    /\ env = DefaultEnv
    /\ edge = NoEdgeCall

NextRecon ==
    \/ BeginReconciliation
    \/ FinishReconciliation
    \/ RespondReconciliation
    \/ MarkTradesReconciled

SpecRecon == InitRecon /\ [][NextRecon]_vars

\* ------------------------------------- one task, requests of every kind
Sides == {"BUY", "SELL", "MERGE"}

DGates ==
    [ sides |-> Sides,
      amounts |-> {50, 200},
      positions |-> {NoNum, 0, 200},
      usdcs |-> {NoNum, 100, 1000},
      traderPrices |-> {NoNum, 50},
      ends |-> {NoEnd, EndIn(30), EndIn(120)},
      timestamps |-> {NoNum, Epoch0, Epoch0 - 2 * TOO_OLD_TIMESTAMP_HOURS * 60 * 60},
      vbooks |-> {GoodBook, WideBook, ThinBook, ResolvedBook, ResolvedThinBook,
                  ThrowingBook},
      lbooks |-> {DeepBook, NearBook, SlippedBook, EmptyBook, ThrowingBook},
      responses |-> {"ok", "ok_noid", "fail", "funds", "throw"} ]

\* a record left failed by a lost lease race, the winner's lease still running
ContendedRecord ==
    [NewRecord(Epoch0, 50, 1000) EXCEPT
        !.lifecycleState = "failed",
        !.failureReason = "lease_acquisition_failed",
        !.retryCount = 1,
        !.claimedBy = "w3",
        !.leaseExpiresAt = Epoch0 + DEFAULT_LEASE_TIMEOUT_MS,
        !.claimedAt = Epoch0]

InitGates ==
    /\ now = Epoch0
    /\ rec \in {NewRecord(Epoch0, 50, 1000), ContendedRecord}
    /\ task = [t \in Tasks |-> IdleTask]
    /\ workerOf = [t \in Tasks |-> IF t = "t1" THEN "w1" ELSE "w2"]
    /\ ncalls = 0
    /\ nextOid = 0
    /\ orders = {}
    /\ entered = {}
    /\ QuietLedger
    /\ env = DefaultEnv
    /\ edge = NoEdgeCall

\* one task calling executeOrderGuarded with requests drawn from D
NextOne(D) ==
    \/ Select("t1")
    \/ DirectCall("t1", D)
    \/ CheckIdempotency("t1")
    \/ AcquireLease("t1")
    \/ AcquireLeaseRead("t1")
    \/ Gates("t1", D)
    \/ Reserve("t1")
    \/ OrderLoop("t1", D)
    \/ ReleaseLease("t1")
    \/ Writeback("t1")
    \/ Tick

SpecGates == InitGates /\ [][NextOne(DGates)]_vars

\* ------------------------------------------ processes receive SIGTERM/SIGINT
NextShutdown ==
    \/ Next
    \/ \E w \in WorkerIds : GracefulShutdown(w)
    \/ \E w \in WorkerIds : ShutdownExit(w)

SpecShutdown == Init /\ [][NextShutdown]_vars

\* --------------------------- one task, trades of every age at the gate
\* BUY requests that differ in the trade's timestamp only: absent, one
\* second older than the limit, exactly at the limit, and new
DFresh ==
    [ sides |-> {"BUY"},
      amounts |-> {200},
      positions |-> {NoNum},
      usdcs |-> {1000},
      traderPrices |-> {50},
      ends |-> {EndIn(120)},
      timestamps |-> {NoNum, Epoch0 - TOO_OLD_TIMESTAMP_HOURS * 60 * 60 - 1,
                      Epoch0 - TOO_OLD_TIMESTAMP_HOURS * 60 * 60, Epoch0},
      vbooks |-> {GoodBook, WideBook},
      lbooks |-> {DeepBook, SlippedBook},
      responses |-> {"ok", "fail"} ]

SpecFresh == InitGates /\ [][NextOne(DFresh)]_vars

\* ------------------------- one task, the store may reject the reservation
NextFaults ==
    \/ NextOne(DGates)
    \/ ReserveThrows("t1")

SpecFaults == InitGates /\ [][NextFaults]_vars

\* ------------------------------------------------------------------ claims
\* the submissions made by processing attempt c
OrdersOf(c) == {o \in orders : o.cid = c}

\* the orderIDs the exchange returned for accepted submissions
SuccessfulOrderIds == {o.orderID : o \in {x \in orders : x.success /\ x.orderID # NoNum}}

\* C1: over the record's whole life at most one processing attempt enters
\* the sub-order loop, and every submission to the exchange was made by an
\* attempt that entered it.
C1_AtMostOneLoopEntry ==
    /\ Cardinality(entered) <= 1
    /\ \A o \in orders : o.cid \in entered

\* one attempt entered the loop and submitted an order while a second
\* attempt's reservation was turned away
C1_Witness ==
    /\ Cardinality(entered) = 1
    /\ orders # {}
    /\ \E t \in Tasks : task[t].pc = "reserveRead" /\ task[t].cid \notin entered

\* acquireLease has returned true / false to task t (executeOrderGuarded
\* goes on to the gates on true and returns lease_acquisition_failed on false)
AcquireReturnedTrue(t) == task[t].pc = "gates"
AcquireReturnedFalse(t) == task[t].pc = "wb" /\ task[t].res = LeaseFailed

\* C2: two processes with distinct worker ids race acquireLease on a record
\* that was claimable when they started, both finishing within one lease
\* timeout: they never both get true, and once both have returned exactly
\* one got true and claimedBy is that worker.
C2_ExactlyOneAcquires ==
    /\ ~(AcquireReturnedTrue("t1") /\ AcquireReturnedTrue("t2"))
    /\ ~(AcquireReturnedFalse("t1") /\ AcquireReturnedFalse("t2"))
    /\ \A t \in Tasks : AcquireReturnedTrue(t) => rec.claimedBy = workerOf[t]

\* both calls have returned: the second task won, after the clock had
\* moved, and the first was refused
C2_Witness ==
    /\ AcquireReturnedFalse("t1")
    /\ AcquireReturnedTrue("t2")
    /\ rec.claimedBy = "w2"
    /\ rec.claimedAt > Epoch0

\* task h got the lease from acquireLease, has not released it, and the
\* stored lease is its process's and has not expired
HoldsLease(h) ==
    /\ task[h].pc \in {"gates", "reserve", "reserveRead", "loop", "rel"}
    /\ rec.claimedBy = workerOf[h]
    /\ rec.leaseExpiresAt # NoNum /\ ~(rec.leaseExpiresAt < now)

\* C3: while a task holds an unexpired lease, acquireLease by another task
\* of the same process does not return true.
C3_SameProcessExcluded ==
    [][ \A t, h \in Tasks :
          ( /\ t # h
            /\ workerOf[t] = workerOf[h]
            /\ HoldsLease(h)
            /\ task[t].pc \in {"acq", "acqRead"} )
          => task'[t].pc # "gates" ]_vars

\* C4: in a call where a gate (timestamp, viability, edge, position, order
\* size) returned failure, no order is submitted, the reservation and the
\* loop are not reached, and the call returns skipped with that gate's
\* reason.
C4_BlockedGateSkips ==
    \A t \in Tasks :
        task[t].blocked # "none" =>
            /\ task[t].pc \in {"rel", "wb"}
            /\ task[t].res = GateSkipped(task[t].blocked)
            /\ OrdersOf(task[t].cid) = {}
            /\ task[t].cid \notin entered

\* a BUY call that passed the earlier gates was stopped by the order-size
\* gate, has released its lease and is about to write skipped
C4_Witness ==
    \E t \in Tasks :
        /\ task[t].blocked = "order_size_below_minimum_usd"
        /\ task[t].pc = "wb"
        /\ rec.claimedBy = NullStr

\* C5: when the idempotency pre-check reads a record with a key, an order
\* id or state executed, the call returns skipped,
\* idempotency_already_executed, with the stored order id, and goes straight
\* to the writeback: the record (its lease fields too) is untouched and
\* nothing is or has been submitted by the call.
C5_PreCheckSkips ==
    [][ \A t \in Tasks :
          ( /\ task[t].pc = "idem"
            /\ task'[t].pc \notin {"idem", "dead"}
            /\ \/ rec.idempotencyKey # NoKey
               \/ rec.clobOrderId # NoNum
               \/ rec.lifecycleState = "executed" )
          => /\ task'[t].pc = "wb"
             /\ task'[t].res.skipped /\ ~task'[t].res.executed /\ ~task'[t].res.failed
             /\ task'[t].res.reason = "idempotency_already_executed"
             /\ task'[t].res.orderId = rec.clobOrderId
             /\ rec' = rec
             /\ orders' = orders
             /\ OrdersOf(task[t].cid) = {} ]_vars

\* a replayed call has been answered with the order id of the first call
C5_Witness ==
    \E t \in Tasks :
        /\ task[t].pc = "wb"
        /\ task[t].res.reason = "idempotency_already_executed"
        /\ task[t].res.orderId # NoNum
        /\ task[t].res.orderId = rec.clobOrderId

\* C6: a call of executeOrderGuarded that found the record in a terminal
\* state (executed, skipped, reconciled) when it was made submits no order.
C6_TerminalReplaySubmitsNothing ==
    \A t \in Tasks :
        task[t].entry \in {"executed", "skipped", "reconciled"} =>
            OrdersOf(task[t].cid) = {}

\* C7 as stated: at most one distinct successful orderID per record.
C7_AtMostOneOrderId ==
    rec.idempotencyKey # NoKey => Cardinality(SuccessfulOrderIds) <= 1

\* C7 amended: the successful orderIDs of a record all come from the
\* sub-orders of one processing attempt, the one whose key is stored.
C7_OrderIdsOfOneAttempt ==
    /\ \A o1, o2 \in orders : o1.success /\ o2.success => o1.cid = o2.cid
    /\ (\E o \in orders : o.success) => rec.idempotencyKey # NoKey

\* one attempt has had two sub-orders accepted under two orderIDs
C7_Witness ==
    \E o1, o2 \in orders :
        /\ o1.success /\ o2.success
        /\ o1.cid = o2.cid
        /\ o1.orderID # NoNum /\ o2.orderID # NoNum /\ o1.orderID # o2.orderID

\* C8: a stored idempotencyKey is never changed or removed by any step.
C8_KeyNeverChanges ==
    [][ rec.idempotencyKey # NoKey => rec'.idempotencyKey = rec.idempotencyKey ]_vars

\* a second reservation, carrying a different key, met the stored key and
\* was refused
C8_Witness ==
    \E t \in Tasks :
        /\ task[t].pc = "reserveRead"
        /\ rec.idempotencyKey # NoKey
        /\ task[t].key # rec.idempotencyKey

\* C9: every change of the record's lifecycle state is one of the legal
\* transitions detected->claimed, claimed->executing,
\* executing->executed|skipped|failed, executed->reconciled,
\* failed->claimed, claimed->detected.
C9_OnlyLegalTransitions ==
    [][ rec'.lifecycleState # rec.lifecycleState =>
          <<rec.lifecycleState, rec'.lifecycleState>> \in
              { <<"detected", "claimed">>, <<"claimed", "executing">>,
                <<"executing", "executed">>, <<"executing", "skipped">>,
                <<"executing", "failed">>, <<"executed", "reconciled">>,
                <<"failed", "claimed">>, <<"claimed", "detected">> } ]_vars

\* C10: a result returned by executeOrderGuarded has exactly one of
\* executed, skipped, failed set.
C10_ExactlyOneOutcome ==
    LET FlagsSet(r) ==
            (IF r.executed THEN 1 ELSE 0) + (IF r.skipped THEN 1 ELSE 0)
                + (IF r.failed THEN 1 ELSE 0)
    IN  \A t \in Tasks :
            task[t].pc \in {"rel", "wb"} => FlagsSet(task[t].res) = 1

\* C11: when a call of executeOrderGuarded that acquired the lease returns
\* or throws, the record's claimedBy is no longer the caller's worker id.
C11_LeaseReleasedOnExit ==
    [][ \A t \in Tasks :
          ( /\ task[t].pc \in {"gates", "reserve", "reserveRead", "loop", "rel"}
            /\ task'[t].pc \in {"wb", "thrown"} )
          => rec'.claimedBy # workerOf[t] ]_vars

\* C12: in every state the record's claimedBy is non-null exactly when its
\* state is claimed or executing and its lease runs beyond the current time.
C12_ClaimedByIffLiveLease ==
    (rec.claimedBy # NullStr)
        <=> ( /\ rec.lifecycleState \in {"claimed", "executing"}
              /\ rec.leaseExpiresAt # NoNum
              /\ rec.leaseExpiresAt > now )

\* C13 as stated: acquireLease by worker w returns true exactly when its
\* atomic update finds claimedBy null or the lease older than the call's
\* clock reading, and then the four fields are set; otherwise it returns
\* false and the record is unchanged.
C13_AcquireOnlyWhenClaimable ==
    [][ \A t \in Tasks :
          LET t0 == task[t].acqNow
              claimable == \/ rec.claimedBy = NullStr
                           \/ (rec.leaseExpiresAt # NoNum /\ rec.leaseExpiresAt < t0)
          IN /\ (task[t].pc = "acq" /\ task'[t].pc # "acq") =>
                   IF claimable
                   THEN /\ task'[t].pc = "gates"
                        /\ rec' = [rec EXCEPT
                                      !.claimedBy = workerOf[t],
                                      !.leaseExpiresAt = t0 + DEFAULT_LEASE_TIMEOUT_MS,
                                      !.claimedAt = t0,
                                      !.lifecycleState = "claimed"]
                   ELSE task'[t].pc = "acqRead" /\ rec' = rec
             /\ (task[t].pc = "acqRead" /\ task'[t].pc # "acqRead") =>
                   /\ task'[t].pc = "wb" /\ task'[t].res = LeaseFailed
                   /\ rec' = rec ]_vars

\* C13 amended: the atomic update succeeds exactly when the record is
\* claimable and then sets the four fields; otherwise the record is left
\* unchanged, and the call returns true if the record read afterwards is
\* claimed by the caller's worker id and false if it is not.
C13_AcquireUpdateIffClaimable ==
    [][ \A t \in Tasks :
          LET t0 == task[t].acqNow
              claimable == \/ rec.claimedBy = NullStr
                           \/ (rec.leaseExpiresAt # NoNum /\ rec.leaseExpiresAt < t0)
          IN /\ (task[t].pc = "acq" /\ task'[t].pc # "acq") =>
                   IF claimable
                   THEN /\ task'[t].pc = "gates"
                        /\ rec' = [rec EXCEPT
                                      !.claimedBy = workerOf[t],
                                      !.leaseExpiresAt = t0 + DEFAULT_LEASE_TIMEOUT_MS,
                                      !.claimedAt = t0,
                                      !.lifecycleState = "claimed"]
                   ELSE task'[t].pc = "acqRead" /\ rec' = rec
             /\ (task[t].pc = "acqRead" /\ task'[t].pc # "acqRead") =>
                   /\ rec' = rec
                   /\ IF rec.claimedBy = workerOf[t]
                      THEN task'[t].pc = "gates"
                      ELSE task'[t].pc = "wb" /\ task'[t].res = LeaseFailed ]_vars

\* acquireLease has returned false to a caller while another worker's
\* lease was running
C13_Witness ==
    \E t \in Tasks :
        /\ AcquireReturnedFalse(t)
        /\ rec.claimedBy \notin {NullStr, workerOf[t]}
        /\ rec.leaseExpiresAt >= now

\* C14: acquireLease by the worker that holds an unexpired lease on the
\* record returns true and changes nothing in the record.
C14_ReacquireIdempotent ==
    [][ \A t \in Tasks :
          ( /\ rec.claimedBy = workerOf[t]
            /\ rec.leaseExpiresAt # NoNum /\ rec.leaseExpiresAt >= now )
          => /\ (task[t].pc = "acq" /\ task'[t].pc # "acq") =>
                   task'[t].pc = "acqRead" /\ rec' = rec
             /\ (task[t].pc = "acqRead" /\ task'[t].pc # "acqRead") =>
                   task'[t].pc = "gates" /\ rec' = rec ]_vars

\* the holder of a lease taken before the run began has called
\* acquireLease and got true, the lease still as it was
C14_Witness ==
    \E t \in Tasks :
        /\ AcquireReturnedTrue(t)
        /\ rec.claimedBy = workerOf[t]
        /\ rec.claimedAt < Epoch0
        /\ rec.leaseExpiresAt >= now

\* C15: releaseLease by worker w clears claimedBy and leaseExpiresAt when
\* claimedBy is w and changes nothing otherwise; the lifecycle state is
\* never changed.
C15_ReleaseOnlyOwnLease ==
    [][ \A t \in Tasks :
          (task[t].pc = "rel" /\ task'[t].pc # "rel") =>
              /\ rec' = IF rec.claimedBy = workerOf[t]
                        THEN [rec EXCEPT !.claimedBy = NullStr,
                                         !.leaseExpiresAt = NoNum]
                        ELSE rec
              /\ rec'.lifecycleState = rec.lifecycleState ]_vars

\* releaseLease has returned to a caller that is not the holder, and the
\* holder's running lease is still in the record
C15_Witness ==
    \E t \in Tasks :
        /\ task[t].pc = "wb" /\ task[t].res = NoResult
        /\ rec.claimedBy \notin {NullStr, workerOf[t]}
        /\ rec.leaseExpiresAt > now

\* C16: clearExpiredLeases resets a record exactly when it is claimed, has
\* a holder and a lease older than the call's clock reading, to detected
\* with no holder and no lease; any other record is unchanged, and an
\* executing record with such a lease stays as it is and is a stuck trade.
C16_ClearExpiredOnlyClaimed ==
    [][ \A t \in Tasks :
          (task[t].pc = "clr" /\ task'[t].pc # "clr") =>
              LET t0 == task[t].acqNow
                  stale == /\ rec.claimedBy # NullStr
                           /\ rec.leaseExpiresAt # NoNum
                           /\ rec.leaseExpiresAt < t0
              IN /\ rec' = IF rec.lifecycleState = "claimed" /\ stale
                           THEN [rec EXCEPT !.lifecycleState = "detected",
                                            !.claimedBy = NullStr,
                                            !.leaseExpiresAt = NoNum]
                           ELSE rec
                 /\ (rec.lifecycleState = "executing" /\ stale) =>
                        rec' = rec /\ IsStuck(rec', now') ]_vars

\* clearExpiredLeases has run over an executing record whose lease is
\* stale: the record is still executing, held, and a stuck trade
C16_Witness ==
    \E t \in Tasks :
        /\ task[t].pc = "cleared"
        /\ rec.lifecycleState = "executing"
        /\ rec.claimedBy # NullStr
        /\ IsStuck(rec, now)

\* C17: when acquireLease fails because another worker holds the record,
\* executeOrderGuarded returns failed, retryable, lease_acquisition_failed,
\* and the writeback of that result leaves the record as it is.
C17_LostLeaseLeavesRecord ==
    [][ \A t \in Tasks :
          /\ ( /\ task[t].pc = "acqRead"
               /\ task'[t].pc \notin {"acqRead", "dead"}
               /\ rec.claimedBy \notin {NullStr, workerOf[t]} )
             => /\ task'[t].pc = "wb"
                /\ task'[t].res.failed /\ task'[t].res.isRetryable
                /\ ~task'[t].res.executed /\ ~task'[t].res.skipped
                /\ task'[t].res.reason = "lease_acquisition_failed"
          /\ ( /\ task[t].pc = "wb"
               /\ task[t].res.reason = "lease_acquisition_failed"
               /\ task'[t].pc = "idle" )
             => rec' = rec ]_vars

\* the call of task t acquired the lease: it stands between the lease and
\* the writeback, or stands at the writeback with a result that was
\* produced after the lease step
AcquiredLease(t) ==
    \/ task[t].pc \in {"gates", "reserve", "reserveRead", "loop", "rel"}
    \/ /\ task[t].pc = "wb"
       /\ task[t].blocked \notin {"missing_trade_timestamp", "trade_timestamp_too_old"}
       /\ task[t].res.reason \notin {"idempotency_already_executed",
                                      "lease_acquisition_failed"}

\* C18: one worker processes a record in the order claim, gates,
\* reservation, sub-order loop, writeback, release: the reservation and the
\* loop are only reached with the lease taken and the gates passed, and
\* when the outcome is written the worker has not yet released its lease.
C18_WritebackBeforeRelease ==
    [][ \A t \in Tasks :
          /\ task'[t].pc \in {"reserve", "loop"} =>
                AcquiredLease(t)' /\ task'[t].blocked = "none"
          /\ (task'[t].pc = "loop" /\ task[t].pc # "loop") => task[t].pc = "reserve"
          /\ ( /\ task[t].pc = "wb" /\ task'[t].pc = "idle"
               /\ AcquiredLease(t) )
             => rec.claimedBy = workerOf[t] ]_vars

\* C19: a SELL/MERGE call whose viability book has a spread above
\* maxSpreadBps or a depth below minDepthUsd does not reach the reservation
\* or the loop and submits nothing; a SELL/MERGE call is not blocked for
\* the price-extreme or time-to-end check; a BUY call whose book fails any
\* viability check does not reach the reservation or the loop either.
C19_ExitStillSubjectToSpreadDepth ==
    \A t \in Tasks :
        LET k == task[t]
            b == k.vbook
            config == getViabilityConfig
            isExit == k.req.side \in {"SELL", "MERGE"}
            spreadTooWide ==
                /\ ~b.throws /\ b.bids # << >> /\ b.asks # << >>
                /\ (b.asks[1].price - b.bids[1].price) * 10000
                       > config.maxSpreadBps * b.bids[1].price
            depthTooLow ==
                /\ ~b.throws
                /\ Min(DepthTimes100(b.bids), DepthTimes100(b.asks))
                       < config.minDepthUsd * 100
            stopped == /\ k.pc \notin {"reserve", "reserveRead", "loop"}
                       /\ OrdersOf(k.cid) = {}
        IN /\ (isExit /\ (spreadTooWide \/ depthTooLow)) => stopped
           /\ isExit => k.blocked \notin {"Market appears resolved: bid",
                                          "Market appears resolved: ask",
                                          "Too close to market end"}
           /\ ( /\ k.req.side = "BUY"
                /\ ~checkMarketViability(b, k.req.hasEndDate, k.req.endMinutes,
                                          FALSE).viable )
              => stopped

C21_SlippageStopOutcome ==
    [][ \A t \in Tasks :
          ( /\ task[t].pc = "wb" /\ task'[t].pc = "idle"
            /\ task[t].res.reason = "slippage_exceeds_max" )
          => IF task[t].res.filledTokens > 0
             THEN /\ rec'.lifecycleState = "executed"
                  /\ rec'.actualTokens = task[t].res.filledTokens
                  /\ rec'.filledSize = task[t].res.filledSize
             ELSE /\ rec'.lifecycleState = "skipped"
                  /\ \A o \in OrdersOf(task[t].cid) : ~o.success ]_vars

\* C22: a writeback that leaves the record executed follows a call in which
\* at least one sub-order was accepted, and stores actualTokens > 0; a
\* loop left on an empty book side or on an amount below the minimum
\* before any fill does not end in an executed record.
C22_ExecutedHasFill ==
    [][ \A t \in Tasks :
          ( /\ task[t].pc = "wb" /\ task'[t].pc = "idle"
            /\ rec'.lifecycleState = "executed" )
          => /\ \E o \in OrdersOf(task[t].cid) : o.success
             /\ task[t].res.executed
             /\ rec'.actualTokens # NoNum /\ rec'.actualTokens > 0 ]_vars

\* C23: when a reconciliation run has found an asset matching within
\* tolerance, the records of that asset that were executed are reconciled
\* once the run has finished; the run changes no record that is in another
\* state or of another asset.
C23_MatchMarksReconciled ==
    [][ (recon.pc = "fetch" /\ recon'.pc = "done") =>
          \A i \in TradeIds :
             LET a == trades[i].asset
                 e == recon'.result.expected[a]
                 matched == /\ e # NoNum
                            /\ \A d \in recon'.result.discrepancies : d.asset # a
             IN IF matched /\ trades[i].lifecycleState = "executed"
                THEN trades'[i].lifecycleState = "reconciled"
                ELSE trades'[i] = trades[i] ]_vars

\* C24: when a reconciliation run has finished, it reports a discrepancy for
\* an asset exactly when the position derived from the executed trades
\* (tokens of executed BUYs minus tokens of executed SELLs) and the position
\* the follower holds at the exchange differ by more than
\* max(1% of expected, 0.1 tokens), or the follower holds the asset and no
\* executed trade of it exists; so a run without discrepancies means that
\* every asset is within that tolerance, whether or not the positions fetch
\* succeeded.
C24_DiscrepancyIffOutOfTolerance ==
    recon.pc = "done" =>
        \A a \in Assets :
            LET done == { i \in TradeIds :
                            /\ trades[i].asset = a
                            /\ trades[i].lifecycleState \in {"executed", "reconciled"} }
                tokens(i) == IF trades[i].actualTokens # NoNum
                             THEN trades[i].actualTokens ELSE 0
                RECURSIVE net(_)
                net(n) == IF n = 0 THEN 0
                          ELSE net(n - 1)
                                 + (IF n \in done
                                    THEN IF trades[n].side = "BUY" THEN tokens(n)
                                                                   ELSE -tokens(n)
                                    ELSE 0)
                expected == net(MaxTrades)
                reported == \E d \in recon.result.discrepancies : d.asset = a
                outOfTolerance ==
                    Abs(held[a] - expected) * 100 > Max(expected, 1000)
            IN /\ reported <=> IF done = {} THEN held[a] > 0 ELSE outOfTolerance
               /\ recon.result.discrepancies = {} => ~outOfTolerance

\* C25: when a process that received a shutdown signal closes the store
\* connection and exits at the end of its graceful shutdown, none of its
\* tasks is inside a call of executeOrderGuarded, and the record is not
\* claimed by the process.
C25_ShutdownCompletesCalls ==
    [][ \A w \in WorkerIds :
          (proc[w] = "stopping" /\ proc'[w] = "exited") =>
              /\ \A t \in Tasks :
                    workerOf[t] = w =>
                        task[t].pc \notin {"idem", "acq", "acqRead", "gates", "reserve",
                                           "reserveRead", "loop", "rel"}
              /\ rec'.claimedBy # w ]_vars

\* C26: a SELL or MERGE call whose myPositionSize is 0 or absent never
\* reaches the reservation or the loop and submits nothing; when the
\* timestamp gate, the pre-check, the lease and the viability gate let it
\* through and its trade value is not under the edge minimum, it returns
\* skipped with reason no_position_to_sell.
C26_NoPositionSkipsSell ==
    \A t \in Tasks :
        LET k == task[t] IN
        ( /\ k.req.side \in {"SELL", "MERGE"}
          /\ k.req.myPositionSize \in {NoNum, 0} )
        => /\ k.pc \notin {"reserve", "reserveRead", "loop"}
           /\ OrdersOf(k.cid) = {}
           /\ ( /\ k.pc \in {"rel", "wb"}
                /\ AcquiredLease(t)
                /\ checkViabilityGate(k.req, k.vbook).passed
                /\ checkEdgeGate(k.req).reason \notin
                       {"edge_filter_missing_trade_usdc", "edge_filter: below minimum"} )
              => k.res = GateSkipped("no_position_to_sell")

\* C27: executeOrderGuarded lets a call past the timestamp gate exactly
\* when tradeTimestamp is present and Date.now() minus it is at most
\* TOO_OLD_TIMESTAMP_HOURS * 3600 seconds; otherwise the call returns
\* skipped with the gate's reason at once, the record untouched, and a call
\* so skipped never reads or claims the record and submits nothing.
C27_TimestampGateBoundary ==
    [][ \A t \in Tasks :
          /\ (task[t].pc = "post" /\ task'[t].pc \in {"idem", "wb"}) =>
                LET ts == task'[t].req.tradeTimestamp
                    limit == TOO_OLD_TIMESTAMP_HOURS * 3600
                IN IF ts # NoNum /\ now - ts <= limit
                   THEN task'[t].pc = "idem" /\ task'[t].blocked = "none"
                   ELSE /\ task'[t].pc = "wb"
                        /\ task'[t].res =
                              GateSkipped(IF ts = NoNum THEN "missing_trade_timestamp"
                                                        ELSE "trade_timestamp_too_old")
                        /\ task'[t].blocked = task'[t].res.reason
                        /\ rec' = rec
          /\ task[t].blocked \in {"missing_trade_timestamp", "trade_timestamp_too_old"} =>
                /\ task[t].pc = "wb"
                /\ task'[t].pc \in {"wb", "idle"}
                /\ OrdersOf(task[t].cid) = {} /\ orders' = orders
                /\ task[t].cid \notin entered
                /\ rec'.claimedBy = rec.claimedBy ]_vars

\* a trade whose age was exactly the limit passed the gate and its call
\* went on to submit an order
C27_Witness ==
    \E t \in Tasks :
        /\ task[t].req.tradeTimestamp = Epoch0 - TOO_OLD_TIMESTAMP_HOURS * 3600
        /\ task[t].pc = "loop"
        /\ OrdersOf(task[t].cid) # {}

\* ------------------- one task, under settings within and beyond the caps
\* BUY requests and books that lie between a hard cap and a setting laxer
\* than it: a bid of 0.96, 3 minutes to the end, a spread of 2400 bps, a
\* depth of 0.25 USD, a trade of 0.30 USD, an ask 2400 bps above the leader
DConfig ==
    [ sides |-> {"BUY"},
      amounts |-> {200},
      positions |-> {NoNum},
      usdcs |-> {30, 1000},
      traderPrices |-> {50},
      ends |-> {EndIn(3), EndIn(120)},
      timestamps |-> {Epoch0},
      vbooks |-> {GoodBook, ResolvedBook,
                  Book(<<Level(50, 2000)>>, <<Level(62, 2000)>>),
                  Book(<<Level(50, 50)>>, <<Level(52, 50)>>)},
      lbooks |-> {DeepBook, Book(<<Level(38, 400)>>, <<Level(62, 400)>>)},
      responses |-> {"ok", "fail"} ]

\* ENV as left undefined, as set laxer than every cap, and as set stricter
InitConfig ==
    /\ now = Epoch0
    /\ rec \in {NewRecord(Epoch0, 50, 1000), ContendedRecord}
    /\ task = [t \in Tasks |-> IdleTask]
    /\ workerOf = [t \in Tasks |-> IF t = "t1" THEN "w1" ELSE "w2"]
    /\ ncalls = 0
    /\ nextOid = 0
    /\ orders = {}
    /\ entered = {}
    /\ QuietLedger
    /\ env \in { DefaultEnv,
                 [ VIABILITY_PRICE_LIMIT |-> 99,
                   VIABILITY_MIN_TIME_BEFORE_END_MINUTES |-> 1,
                   VIABILITY_MAX_SPREAD_BPS |-> 5000,
                   VIABILITY_MIN_DEPTH_USD |-> 10,
                   EDGE_MIN_POSITION_DELTA_USD |-> 10,
                   EDGE_MIN_TRADE_PERCENT_OF_POSITION |-> 0,
                   MAX_SLIPPAGE_BPS |-> 5000 ],
                 [ VIABILITY_PRICE_LIMIT |-> 90,
                   VIABILITY_MIN_TIME_BEFORE_END_MINUTES |-> 180,
                   VIABILITY_MAX_SPREAD_BPS |-> 100,
                   VIABILITY_MIN_DEPTH_USD |-> 5000,
                   EDGE_MIN_POSITION_DELTA_USD |-> 2000,
                   EDGE_MIN_TRADE_PERCENT_OF_POSITION |-> 10,
                   MAX_SLIPPAGE_BPS |-> 100 ] }
    /\ edge = NoEdgeCall

SpecConfig == InitConfig /\ [][NextOne(DConfig)]_vars

\* C28: whatever ENV holds, the thresholds the gates use respect the hard
\* caps: priceLimit <= 0.95, minTimeBeforeEndMinutes >= 5, maxSpreadBps <=
\* 2000, minDepthUsd >= 0.50, minPositionDeltaUsd >= 0.50,
\* minTradePercentOfPosition >= 1 and the effective maximum slippage <= 1000
\* bps; so a BUY that passed Gates 1-4 met a book and a trade within the
\* caps, and every sub-order went out within 1000 bps of the leader's price.
C28_ThresholdsRespectHardCaps ==
    /\ getViabilityConfig.priceLimit <= 95
    /\ getViabilityConfig.minTimeBeforeEndMinutes >= 5
    /\ getViabilityConfig.maxSpreadBps <= 2000
    /\ getViabilityConfig.minDepthUsd >= 50
    /\ getEdgeConfig.minPositionDeltaUsd >= 50
    /\ getEdgeConfig.minTradePercentOfPosition >= 1
    /\ EFFECTIVE_MAX_SLIPPAGE_BPS <= 1000
    /\ \A t \in Tasks :
          (task[t].pc = "reserve" /\ task[t].req.side = "BUY") =>
              LET b == task[t].vbook IN
              /\ b.bids # << >> /\ b.asks # << >>
              /\ b.bids[1].price < 95
              /\ b.asks[1].price > 5
              /\ task[t].req.endMinutes >= 5
              /\ (b.asks[1].price - b.bids[1].price) * 10000 <= 2000 * b.bids[1].price
              /\ Min(DepthTimes100(b.bids), DepthTimes100(b.asks)) >= 50 * 100
              /\ task[t].req.tradeUsdcSize >= 50
    /\ \A o \in orders :
          (o.side = "BUY" /\ o.traderPrice > 0) =>
              (o.price - o.traderPrice) * 10000 <= 1000 * o.traderPrice

\* under settings laxer than the caps, a BUY met a bid of 0.96, below the
\* configured limit of 0.99, and Gate 1 stopped it as a resolved market
C28_Witness ==
    \E t \in Tasks :
        /\ env.VIABILITY_PRICE_LIMIT > 95
        /\ task[t].pc = "rel"
        /\ task[t].vbook = ResolvedBook
        /\ task[t].vbook.bids[1].price < env.VIABILITY_PRICE_LIMIT
        /\ task[t].blocked # "none"
        /\ task[t].res.skipped

\* C29: when the exchange rejects a sub-order for lack of balance or
\* allowance, the call leaves the loop at once with the result failed,
\* isRetryable = false, reason insufficient_funds_or_allowance; from then on
\* the call submits no sub-order, and its writeback leaves the record
\* failed with bot = true and retryCount as it was.
C29_FundsAbortIsFinal ==
    [][ \A t \in Tasks :
          LET k == task[t]
              k2 == task'[t]
          IN
          /\ (~k.abortDueToFunds /\ k2.abortDueToFunds) =>
                /\ k.pc = "loop" /\ k2.pc = "rel"
                /\ k2.res.failed /\ ~k2.res.skipped
                /\ ~k2.res.isRetryable
                /\ k2.res.reason = "insufficient_funds_or_allowance"
          /\ k.abortDueToFunds =>
                /\ k.pc \in {"rel", "wb"}
                /\ {o \in orders' : o.cid = k.cid} = {o \in orders : o.cid = k.cid}
                /\ nextOid' = nextOid \/ k2.pc = k.pc
                /\ k2.abortDueToFunds => k2.res = k.res
                /\ (k.pc = "wb" /\ k2.pc = "idle") =>
                      /\ rec'.lifecycleState = "failed"
                      /\ rec'.bot = TRUE
                      /\ rec'.retryCount = rec.retryCount
                      /\ rec'.failureReason = "insufficient_funds_or_allowance" ]_vars

\* a record selected for its first retry (retryCount 1) was written back
\* after a rejection for funds that followed a filled sub-order: it is
\* failed with bot = true and retryCount still 1
C29_Witness ==
    /\ rec.lifecycleState = "failed"
    /\ rec.failureReason = "insufficient_funds_or_allowance"
    /\ rec.bot = TRUE
    /\ rec.retryCount = 1
    /\ \E o \in orders : o.success
    /\ \E o \in orders : ~o.success
    /\ \A t \in Tasks : task[t].pc = "idle"

\* ------------------------- one task, the sub-order loop on books of every
\* depth: a best level that fills the request in two sub-orders, one that
\* leaves less than the minimum, one that holds a fraction of the minimum,
\* and an empty book
DLoop ==
    [ sides |-> {"BUY", "SELL"},
      amounts |-> {200},
      positions |-> {200},
      usdcs |-> {1000},
      traderPrices |-> {50},
      ends |-> {EndIn(120)},
      timestamps |-> {Epoch0},
      vbooks |-> {GoodBook},
      lbooks |-> {SmallBook,
                  Book(<<Level(50, 150)>>, <<Level(50, 300)>>),
                  Book(<<Level(50, 40)>>, <<Level(50, 40)>>),
                  SlippedBook, EmptyBook, ThrowingBook},
      responses |-> {"ok", "ok_noid", "fail", "funds", "throw"} ]

\* the loop is not suspended for ever: each awaited call settles
SpecLoop == InitGates /\ [][NextOne(DLoop)]_vars /\ WF_vars(OrderLoop("t1", DLoop))

C31_FilledAtMostIntended ==
    [][ \A t \in Tasks :
          LET k == task[t]
              k2 == task'[t]
              amount == k.remaining - k2.remaining
          IN
          /\ k.remaining >= 0
          /\ (k.pc = "loop" /\ k2.pc = "loop") =>
                /\ amount >= 0 /\ amount <= k.remaining
                /\ k2.totalFilledUsd >= k.totalFilledUsd
                /\ k.req.side = "BUY" =>
                      k2.totalFilledUsd = k.totalFilledUsd + amount
                /\ k.req.side # "BUY" =>
                      /\ k2.totalFilledTokens = k.totalFilledTokens + amount
                      /\ k2.totalFilledUsd <= k.totalFilledUsd + amount
          /\ k.pc = "loop" =>
                /\ k.totalFilledUsd + k.remaining <= k.req.amount
                /\ k.req.side # "BUY" =>
                      k.totalFilledTokens + k.remaining = k.req.amount
          /\ ( /\ k.pc = "wb" /\ k2.pc = "idle"
               /\ k.res.executed /\ ~k.res.skipped /\ ~k.res.failed ) =>
                /\ rec'.lifecycleState = "executed"
                /\ rec'.filledSize = k.res.filledSize
                /\ rec'.intendedSize = k.req.amount
                /\ rec'.filledSize <= rec'.intendedSize + 1 ]_vars

\* a BUY of 2.00 USD was filled with 1.50 USD by one sub-order and written
\* back executed with 0.50 USD left
C31_Witness ==
    /\ rec.lifecycleState = "executed"
    /\ rec.intendedSize = 200
    /\ rec.filledSize = 150
    /\ \E o \in orders : o.success /\ o.side = "BUY"
    /\ \A t \in Tasks : task[t].pc = "idle"

\* C32: an executed writeback sets needsManualReview exactly when the
\* recorded filledSize is below 80% or above 120% of the recorded
\* intendedSize, a fill of zero included.
C32_ReviewIffOutsideBand ==
    [][ \A t \in Tasks :
          ( /\ task[t].pc = "wb" /\ task'[t].pc = "idle"
            /\ rec'.lifecycleState = "executed"
            /\ rec.lifecycleState # "executed" ) =>
              ( rec'.needsManualReview <=>
                   \/ rec'.filledSize * 100 < 80 * rec'.intendedSize
                   \/ rec'.filledSize * 100 > 120 * rec'.intendedSize ) ]_vars

\* ------------------ one task on a SELL while BUYs of the asset are tracked
\* SELL requests of 2 and 5 tokens against a position of 5, on books whose
\* best bid takes all, 1 token at a time, or nothing
DTrack ==
    [ conds |-> {"sell"},
      positions |-> {500},
      amounts |-> {200, 500},
      ends |-> {EndIn(120)},
      vbooks |-> {GoodBook},
      lbooks |-> {Book(<<Level(50, 1000)>>, <<Level(52, 1000)>>), SmallBook, EmptyBook},
      responses |-> {"ok", "fail"} ]

\* the ledger holds one executed BUY of the asset and a second record: a
\* BUY of the same asset, a BUY of another asset, or an earlier SELL
InitTrack ==
    /\ now = Epoch0
    /\ rec \in {NewRecord(Epoch0, 50, 1000), ContendedRecord}
    /\ task = [t \in Tasks |-> IdleTask]
    /\ workerOf = [t \in Tasks |-> IF t = "t1" THEN "w1" ELSE "w2"]
    /\ ncalls = 0
    /\ nextOid = 0
    /\ orders = {}
    /\ entered = {}
    /\ \E second \in { TradeRecord("a1", "BUY", "executed", TRUE, 500, 500),
                       TradeRecord("a1", "BUY", "executed", TRUE, 2000, 500),
                       TradeRecord("a2", "BUY", "executed", TRUE, 500, 500),
                       TradeRecord("a1", "SELL", "executed", TRUE, 500, 500) } :
         trades = [i \in TradeIds |->
                     IF i = 1 THEN TradeRecord("a1", "BUY", "executed", TRUE, 500, 500)
                     ELSE second]
    /\ held = [a \in Assets |-> 0]
    /\ recon = IdleRecon
    /\ proc = [w \in WorkerIds |-> "running"]
    /\ env = DefaultEnv
    /\ edge = NoEdgeCall

NextTrack(D) ==
    \/ Select("t1")
    \/ PostOrder("t1", D)
    \/ CheckIdempotency("t1")
    \/ AcquireLease("t1")
    \/ AcquireLeaseRead("t1")
    \/ Gates("t1", D)
    \/ Reserve("t1")
    \/ OrderLoop("t1", D)
    \/ ReleaseLease("t1")
    \/ Writeback("t1")
    \/ UpdateTracked("t1")
    \/ \E filledTokens \in {100, 200} : ConcurrentSell(filledTokens)
    \/ Tick

SpecTrack == InitTrack /\ [][NextTrack(DTrack)]_vars

\* C33: when postOrder updates the tracked purchases after a SELL that
\* filled filledTokens > 0 of a tracked total T: with filledTokens / T >=
\* 0.99 every tracked BUY of the asset is left with myBoughtSize 0;
\* otherwise each is left with its size times (1 - filledTokens / T), to
\* within 0.01 token of rounding, none below 0, and the tracked total goes
\* down by filledTokens; records that are not tracked BUYs of the asset
\* stay as they are; and a writeback after which there is nothing to update
\* changes no myBoughtSize of the ledger.
C33_TrackedReducedBySell ==
    [][ \A t \in Tasks :
          LET cur == PreviousBuys(trades, rec)
              new == PreviousBuys(trades', rec)
              RECURSIVE sum(_, _)
              sum(f, n) == IF n = 0 THEN 0 ELSE f[n] + sum(f, n - 1)
              T == sum(cur, MaxTrades)
              filled == task[t].res.filledTokens
          IN
          /\ (task[t].pc = "track" /\ task'[t].pc = "idle") =>
                /\ filled > 0 /\ T > 0
                /\ \A i \in TradeIds : cur[i] = 0 => trades'[i] = trades[i]
                /\ IF filled * 100 >= 99 * T
                   THEN \A i \in TradeIds :
                           cur[i] > 0 => trades'[i].myBoughtSize = 0
                   ELSE /\ \A i \in TradeIds :
                              cur[i] > 0 =>
                                 /\ trades'[i].myBoughtSize >= 0
                                 /\ trades'[i].myBoughtSize * T <= cur[i] * (T - filled)
                                 /\ trades'[i].myBoughtSize * T > cur[i] * (T - filled) - T
                        /\ sum(new, MaxTrades) <= T - filled
                        /\ sum(new, MaxTrades) >= T - filled - MaxTrades
          /\ (task[t].pc = "wb" /\ task'[t].pc = "idle") => trades' = trades ]_vars

\* --------------------------------- checkEdgeFilters called on its own, as
\* its tests do: a trade, the two positions and a config override
\* the call and its return; amounts around each threshold: a trade value
\* absent, 0.01 under and at the minimum of 5.00, a leader position after
\* the trade that makes 1 token exactly 10% and just under 10%
CallEdgeFilters ==
    /\ ~edge.done
    /\ \E usdcSize \in {NoNum, 30, 499, 500}, size \in {NoNum, 100, 200},
          side \in {"BUY", "SELL"}, myPosition \in {NoNum, 0, 200},
          traderPosition \in {NoNum, 0, 900, 1000},
          minPositionDeltaUsd \in {50, 500}, requirePositionForSell \in BOOLEAN,
          minTradePercentOfPosition \in {1, 10} :
         LET config == [ minPositionDeltaUsd |-> minPositionDeltaUsd,
                         requirePositionForSell |-> requirePositionForSell,
                         minTradePercentOfPosition |-> minTradePercentOfPosition ]
         IN edge' = [ done |-> TRUE,
                      trade |-> [usdcSize |-> usdcSize, size |-> size, side |-> side],
                      myPosition |-> myPosition, traderPosition |-> traderPosition,
                      config |-> config,
                      result |-> checkEdgeFilters(usdcSize, size, side, myPosition,
                                                  traderPosition, config) ]
    /\ UNCHANGED <<now, rec, task, workerOf, ncalls, nextOid, orders, entered,
                   reconVars, proc, env>>

SpecEdge == InitGates /\ [][CallEdgeFilters]_vars

\* C34: checkEdgeFilters answers shouldCopy = false exactly when the trade's
\* usdcSize (0 when absent) is below minPositionDeltaUsd, or the trade is a
\* SELL, requirePositionForSell is on and no position is held (absent or
\* size <= 0), or the trade is a SELL of less than
\* minTradePercentOfPosition percent of the leader's position before it
\* (position after + trade size); so a BUY is blocked by the first filter
\* only, and with requirePositionForSell off a SELL is not blocked for
\* lacking a position.
C34_EdgeFiltersExactly ==
    edge.done =>
        LET tradeSize == IF edge.trade.size = NoNum THEN 0 ELSE edge.trade.size
            after == IF edge.traderPosition = NoNum THEN 0 ELSE edge.traderPosition
            isSell == edge.trade.side = "SELL"
            belowDelta ==
                (IF edge.trade.usdcSize = NoNum THEN 0 ELSE edge.trade.usdcSize)
                    < edge.config.minPositionDeltaUsd
            noPosition ==
                /\ isSell /\ edge.config.requirePositionForSell
                /\ (edge.myPosition = NoNum \/ edge.myPosition <= 0)
            smallRebalance ==
                /\ isSell
                /\ tradeSize * 100 < edge.config.minTradePercentOfPosition * (after + tradeSize)
        IN /\ ~edge.result.shouldCopy <=> (belowDelta \/ noPosition \/ smallRebalance)
           /\ ~isSell => (~edge.result.shouldCopy <=> belowDelta)
           /\ (isSell /\ ~edge.config.requirePositionForSell) =>
                 (~edge.result.shouldCopy <=> (belowDelta \/ smallRebalance))

\* a SELL of 1 token worth 5.00 USD by a leader left with 10 tokens, the
\* follower holding 2: 1 of 11 tokens is under 10%, and it is not copied
C34_Witness ==
    /\ edge.done
    /\ edge.trade.side = "SELL"
    /\ edge.trade.usdcSize = 500 /\ edge.config.minPositionDeltaUsd = 500
    /\ edge.myPosition = 200
    /\ edge.trade.size = 100 /\ edge.traderPosition = 1000
    /\ edge.config.minTradePercentOfPosition = 10
    /\ ~edge.result.shouldCopy
    /\ edge.result.reason = "small rebalance"

\* C35: once the record is executed, no step of any worker changes its
\* lifecycle state, its fill fields (actualTokens, myBoughtSize, filledSize,
\* intendedSize) or its clobOrderId, except that reconciliation may move it
\* to reconciled.
C35_ExecutedIsKept ==
    [][ rec.lifecycleState = "executed" =>
          /\ rec'.lifecycleState \in {"executed", "reconciled"}
          /\ rec'.actualTokens = rec.actualTokens
          /\ rec'.myBoughtSize = rec.myBoughtSize
          /\ rec'.filledSize = rec.filledSize
          /\ rec'.intendedSize = rec.intendedSize
          /\ rec'.clobOrderId = rec.clobOrderId
          /\ rec'.lifecycleState = "reconciled" =>
                \A t \in Tasks : task'[t] = task[t] ]_vars

\* C36: when a worker writes back the outcome of a call in which sub-orders
\* succeeded, the record's actualTokens and filledSize are the tokens and
\* the USD those sub-orders filled, however the loop ended.
C36_FillsAreRecorded ==
    [][ \A t \in Tasks :
          ( /\ task[t].pc = "wb" /\ task'[t].pc \in {"idle", "track"}
            /\ task[t].totalFilledTokens > 0 ) =>
              /\ rec'.actualTokens = task[t].totalFilledTokens
              /\ rec'.filledSize = task[t].totalFilledUsd ]_vars

\* C37: every sub-order the loop submits is at least the minimum size of
\* its side: 1.00 USD for a BUY, 1.00 token for a SELL or MERGE.
C37_SubOrderAtLeastMinimum ==
    \A o \in orders :
        o.amount >= (IF o.side = "BUY" THEN MIN_ORDER_SIZE_USD
                                       ELSE MIN_ORDER_SIZE_TOKENS)

\* postOrder's SELL strategy with its early returns: without a position,
\* with a computed amount below the minimum, and through the executor
DPost ==
    [ conds |-> {"sell"},
      positions |-> {NoNum, 500},
      amounts |-> {0, 200},
      ends |-> {EndIn(120)},
      vbooks |-> {GoodBook},
      lbooks |-> {Book(<<Level(50, 1000)>>, <<Level(52, 1000)>>), EmptyBook},
      responses |-> {"ok", "fail", "throw"} ]

SpecPost == InitTrack /\ [][NextTrack(DPost)]_vars

C39_NoOrderWithoutViabilityBook ==
    \A t \in Tasks :
        (task[t].pc \in {"gates", "reserve", "loop", "rel", "wb"} /\ task[t].vbook.throws)
            => OrdersOf(task[t].cid) = {}

\* C40: whenever postOrder returns, the record it was called for is in
\* state executed, skipped or failed.
C40_PostOrderEndsTerminal ==
    [][ \A t \in Tasks :
          (task[t].pc \notin {"idle", "dead"} /\ task'[t].pc = "idle") =>
              rec'.lifecycleState \in {"executed", "skipped", "failed"} ]_vars

====
